---------------------------- MODULE Spec2Model ----------------------------
(***************************************************************************)
(* A model of SceneImporter (sketchup_importer/__init__.py): the load      *)
(* pipeline that analyses a SketchUp entity tree, materialises heavily     *)
(* used components as shared collections, writes the object hierarchy and  *)
(* finally places DUPLI instancing objects.                                *)
(*                                                                         *)
(* Names are strings, so that "C-" + name is string concatenation.         *)
(* The three recursive traversals (analyze_entities, write_entities,       *)
(* component_def_as_group) run on an explicit stack of call frames: the    *)
(* body of a call does all its effects before its child loops, and nothing *)
(* after them, so popping a frame, running the body and pushing the child  *)
(* calls in loop order visits the calls in the order of the recursion.     *)
(***************************************************************************)
EXTENDS Integers, Sequences, FiniteSets, TLC

(***************************************************************************)
(* Bounds of the model.                                                    *)
(***************************************************************************)
\* instances directly under the model root
MaxInst == 2
\* values of the max_instance option: 1..MaxThreshold
MaxThreshold == 2
\* entries of the 'binaries' object of a 3D Warehouse entity
MaxBinaries == 3
\* URLs handed to one call of _attempt_download
MaxUrls == 2
\* characters of the text of wm.skp_wh_query
MaxQueryLen == 2
\* the paging offset the searches are followed up to
MaxOffset == 4
\* materials of a file handed to write_materials
MaxMaterials == 2

(***************************************************************************)
(* Generic helpers.                                                        *)
(***************************************************************************)
Abs(n) == IF n < 0 THEN -n ELSE n

Max2(a, b) == IF a >= b THEN a ELSE b

RECURSIVE SeqMax(_)
SeqMax(s) == IF s = <<>> THEN 0 ELSE Max2(Head(s), SeqMax(Tail(s)))

RECURSIVE SeqsUpTo(_, _)
SeqsUpTo(S, n) ==
    IF n = 0 THEN {<<>>}
    ELSE LET shorter == SeqsUpTo(S, n - 1)
         IN  shorter \cup {Append(s, x) : s \in {t \in shorter : Len(t) = n - 1}, x \in S}

RECURSIVE ConcatAll(_)
ConcatAll(ss) == IF ss = <<>> THEN <<>> ELSE Head(ss) \o ConcatAll(Tail(ss))

\* the positions of s that are in keep, in order
SelectIdx(s, keep) ==
    LET RECURSIVE Go(_)
        Go(i) == IF i > Len(s) THEN <<>>
                 ELSE IF i \in keep THEN <<i>> \o Go(i + 1) ELSE Go(i + 1)
    IN  Go(1)

(***************************************************************************)
(* mathutils.Matrix, restricted to plane similarities: the linear part     *)
(* (a b / c d) and the translation (x, y).  Compose is the matrix product  *)
(* P @ L; Decompose returns (loc, rot, scale) as Matrix.decompose does:    *)
(* the scale is the norm of each column, the rotation is what is left of   *)
(* the linear part, here a number of quarter turns.                        *)
(***************************************************************************)
Mat(a, b, c, d, x, y) == [a |-> a, b |-> b, c |-> c, d |-> d, x |-> x, y |-> y]

Identity == Mat(1, 0, 0, 1, 0, 0)

Translation(x, y) == Mat(1, 0, 0, 1, x, y)

QuarterTurn == Mat(0, -1, 1, 0, 0, 0)

Scale2 == Mat(2, 0, 0, 2, 0, 0)

\* Compose with the local transform first
ComposeReversed(P, L) ==
    Mat(L.a * P.a + L.b * P.c, L.a * P.b + L.b * P.d,
        L.c * P.a + L.d * P.c, L.c * P.b + L.d * P.d,
        L.a * P.x + L.b * P.y + L.x, L.c * P.x + L.d * P.y + L.y)

Compose(P, L) ==
    Mat(P.a * L.a + P.b * L.c, P.a * L.b + P.b * L.d,
        P.c * L.a + P.d * L.c, P.c * L.b + P.d * L.d,
        P.a * L.x + P.b * L.y + P.x, P.c * L.x + P.d * L.y + P.y)

\* the norm of an axis-aligned column
Norm(u, v) == Abs(u) + Abs(v)

Decompose(T) ==
    LET sx == Norm(T.a, T.c)
        sy == Norm(T.b, T.d)
        rot == IF T.a > 0 THEN 0 ELSE IF T.c > 0 THEN 1 ELSE IF T.a < 0 THEN 2 ELSE 3
    IN  [loc |-> <<T.x, T.y>>, rot |-> rot, scale |-> <<sx, sy>>]

(***************************************************************************)
(* The SketchUp model: entities, groups, instances, component definitions. *)
(* A face is its material name ("" when the face has none).                *)
(***************************************************************************)
Entities(groups, instances, faces) ==
    [groups |-> groups, instances |-> instances, faces |-> faces]

Group(name, transform, material, hidden, layer, entities) ==
    [name |-> name, transform |-> transform, material |-> material,
     hidden |-> hidden, layer |-> layer, entities |-> entities]

Instance(definition, name, transform, material, hidden, layer) ==
    [definition |-> definition, name |-> name, transform |-> transform,
     material |-> material, hidden |-> hidden, layer |-> layer]

\* the component definitions of every model of the family
DefNames == {"A", "C-A", "B", "D", "E"}

component_definitions ==
    [n \in DefNames |->
        CASE n = "A" -> Entities(<<>>, <<>>, <<"">>)
          [] n = "C-A" -> Entities(<<>>, <<>>, <<"Red">>)
          [] n = "E" -> Entities(<<>>, <<>>, <<>>)
          [] n = "B" ->
                Entities(<<>>,
                         <<Instance("A", "", Translation(1, 0), "", FALSE, "L0"),
                           Instance("A", "", QuarterTurn, "", FALSE, "L0")>>,
                         <<>>)
          [] n = "D" ->
                Entities(<<Group("g", Translation(0, 1), "Red", FALSE, "L1",
                                 Entities(<<>>,
                                          <<Instance("A", "n", Identity, "", FALSE, "L0")>>,
                                          <<"">>)),
                           Group("g", Identity, "Red", FALSE, "L0",
                                 Entities(<<>>, <<>>, <<"Blue">>))>>,
                         <<Instance("C-A", "", Identity, "", FALSE, "L0"),
                           Instance("B", "", Identity, "", FALSE, "L0"),
                           Instance("A", "", Scale2, "", FALSE, "L1"),
                           Instance("E", "", Identity, "", FALSE, "L0")>>,
                         <<"">>)]

\* the instances a model may hold directly under its root
RootInstances ==
    {Instance("A", "", Identity, "", FALSE, "L0"),
     Instance("C-A", "", Identity, "", FALSE, "L0"),
     Instance("B", "", Identity, "", FALSE, "L0"),
     Instance("B", "", Translation(1, 0), "", TRUE, "L0"),
     Instance("D", "", Translation(0, 1), "", FALSE, "L0")}

Models == {Entities(<<>>, is, <<"Blue">>) : is \in SeqsUpTo(RootInstances, MaxInst)}

\* the options load stores on entry: max_instance, reuse_existing_groups and
\* the layers the imported scene hides
Options ==
    [max_instance : 1..MaxThreshold,
     reuse_existing_groups : BOOLEAN,
     layers_skip : {{}, {"L1"}}]

\* the names of the collections of the host before the import
HostCollections == <<"A">>

\* self.skp_model.materials: the names of the materials the file lists; the
\* faces and nodes of the models also use "Red", which it does not list
SkpMaterials == <<"Blue">>

\* self.skp_model.scenes: the names of the scenes of the file
SkpScenes == <<"Scene 1">>

(***************************************************************************)
(* SKPutil                                                                 *)
(***************************************************************************)
EntityType == [none |-> "none", group |-> "group", component |-> "component", outer |-> "outer"]

inherent_default_mat(mat, default_material) ==
    IF mat = "" THEN default_material ELSE mat

group_name(name, mat) ==
    IF mat = "Material" THEN name ELSE name \o "_" \o mat

group_safe_name(name) == name

RECURSIVE component_deps(_)
component_deps(entities) ==
    IF entities.groups = <<>> /\ entities.instances = <<>> THEN 0
    ELSE 1 + Max2(
            SeqMax([i \in 1..Len(entities.groups) |->
                        component_deps(entities.groups[i].entities)]),
            SeqMax([i \in 1..Len(entities.instances) |->
                        component_deps(component_definitions[entities.instances[i].definition])]))


(***************************************************************************)
(* The state: the fields of the SceneImporter, the host's data blocks      *)
(* (bpy.data.collections, objects, meshes), the locals of load and of      *)
(* write_duplicateable_groups, the stack of pending calls of the running   *)
(* traversal, and a log of the calls made (history, read by no action).    *)
(***************************************************************************)
VARIABLES
    pc,                \* where load is
    skp_model,         \* self.skp_model.entities
    max_instance,      \* self.max_instance
    reuse_group,       \* self.reuse_group
    layers_skip,       \* self.layers_skip
    dedub_type,        \* options['dedub_type'], "" until load reads it
    component_depth,   \* self.component_depth
    component_stats,   \* self.component_stats: <<[key, v]>> in insertion order
    component_skip,    \* self.component_skip: the keys present
    group_written,     \* self.group_written: key -> collection
    component_meshes,  \* self.component_meshes: key -> mesh
    meshes,            \* bpy.data.meshes
    objects,           \* bpy.data.objects
    collections,       \* bpy.data.collections
    analysed,          \* write_duplicateable_groups: what analyze_entities returns
    stats,             \* write_duplicateable_groups: the filtered component_stats
    loop,              \* write_duplicateable_groups: the loop position (i, k)
    stack,             \* the pending calls of the running traversal
    log,               \* the calls made so far
    materials,         \* self.materials: the names bound by write_materials
    wh,                \* ImportSketchupWarehouseGLB.execute: its locals
    dl,                \* ImportSketchupWarehouseGLB._attempt_download: its locals
    search,            \* wm.skp_wh_offset and _skp_wh_last_query
    host               \* bpy.data.materials and the last call of write_materials

vars == <<pc, skp_model, max_instance, reuse_group, layers_skip, dedub_type,
          component_depth, component_stats, component_skip, group_written,
          component_meshes, meshes, objects, collections, analysed, stats, loop, stack, log,
          materials, wh, dl, search, host>>

NoModel == Entities(<<>>, <<>>, <<>>)

\* ImportSketchupWarehouseGLB.execute has not been called
WarehouseIdle == [pc |-> "idle"]

\* _attempt_download has not been called
DownloadIdle == [pc |-> "idle"]

\* lines 1370 and 1401: no search made yet; a text is the sequence of its
\* characters; last is the last call of SKPWH_OT_Search.execute (history)
SearchIdle ==
    [skp_wh_offset |-> 0, _skp_wh_last_query |-> <<>>, result |-> "",
     last |-> [query |-> <<>>, page_delta |-> 0, max_results |-> 1,
               skp_wh_offset |-> 0, _skp_wh_last_query |-> <<>>]]

\* write_materials has not been called
HostIdle == [pc |-> "idle"]

Collection(name, objs) == [name |-> name, objects |-> objs]

Init ==
    /\ pc = "idle"
    /\ skp_model = NoModel
    /\ max_instance = 1
    /\ reuse_group = FALSE
    /\ layers_skip = {}
    /\ dedub_type = ""
    /\ component_depth = <<>>
    /\ component_stats = <<>>
    /\ component_skip = {}
    /\ group_written = <<>>
    /\ component_meshes = <<>>
    /\ meshes = <<>>
    /\ objects = <<>>
    /\ collections = [j \in 1..Len(HostCollections) |-> Collection(HostCollections[j], <<>>)]
    /\ analysed = <<>>
    /\ stats = <<>>
    /\ loop = [i |-> 0, k |-> 1]
    /\ stack = <<>>
    /\ log = <<>>
    /\ materials = {}
    /\ wh = WarehouseIdle
    /\ dl = DownloadIdle
    /\ search = SearchIdle
    /\ host = HostIdle

(***************************************************************************)
(* Dictionaries kept in insertion order: defaultdict(list)[key].append(x). *)
(***************************************************************************)
HasKey(d, key) == \E j \in 1..Len(d) : d[j].key = key

KeyIndex(d, key) == CHOOSE j \in 1..Len(d) : d[j].key = key

Lookup(d, key) == IF HasKey(d, key) THEN d[KeyIndex(d, key)].v ELSE <<>>

AppendTo(d, key, x) ==
    IF HasKey(d, key)
    THEN [d EXCEPT ![KeyIndex(d, key)].v = Append(@, x)]
    ELSE Append(d, [key |-> key, v |-> <<x>>])

(***************************************************************************)
(* The host: a new data block gets a name no other block of its kind has.  *)
(***************************************************************************)
NamesOf(blocks) == {blocks[j].name : j \in 1..Len(blocks)}

UniqueName(blocks, name) ==
    IF name \notin NamesOf(blocks) THEN name
    ELSE LET Numbered(n) == name \o ".00" \o ToString(n)
             n == CHOOSE m \in 1..(Len(blocks) + 1) :
                     /\ Numbered(m) \notin NamesOf(blocks)
                     /\ \A l \in 1..(m - 1) : Numbered(l) \in NamesOf(blocks)
         IN  Numbered(n)

CollectionNamed(name) == CHOOSE j \in 1..Len(collections) : collections[j].name = name

(***************************************************************************)
(* load, up to the call of write_duplicateable_groups, and the first call  *)
(* of analyze_entities it makes.                                           *)
(***************************************************************************)
Frame(ent, name, transform, mat, etype, defname, hid, parent, group, path) ==
    [ent |-> ent, name |-> name, transform |-> transform, mat |-> mat,
     etype |-> etype, defname |-> defname, hid |-> hid, parent |-> parent,
     group |-> group, path |-> path]

\* the path of the call made for the child at position idx of the groups
\* (kind "group") or of the instances (kind "instance") of the node of f:
\* the children passed through since the root call of the traversal, each
\* with its own material and its local transform (history)
PathTo(f, kind, idx, child) ==
    Append(f.path, [kind |-> kind, idx |-> idx, material |-> child.material,
                    transform |-> child.transform, hidden |-> child.hidden])

\* create_nested_collection: the main collection and the named one are made
\* when the host has no collection of the name
EnsureCollection(colls, name) ==
    IF name \in NamesOf(colls) THEN colls ELSE Append(colls, Collection(name, <<>>))

create_nested_collection(colls, coll_name) ==
    EnsureCollection(EnsureCollection(colls, "SKP Imported Data"), coll_name)

\* write_camera, once per scene; with import_scene set, once for that scene
RECURSIVE write_camera(_, _)
write_camera(objs, scenes) ==
    IF scenes = <<>> THEN objs
    ELSE write_camera(
            Append(objs, [name |-> UniqueName(objs, "Cam: " \o Head(scenes)), data |-> 0,
                          matrix_world |-> Identity, parent |-> 0,
                          instance_collection |-> 0, by |-> "camera",
                          etype |-> EntityType.none, defname |-> "", mat |-> "",
                          hid |-> FALSE]),
            Tail(scenes))

\* bpy.data.materials.new: the name the host gives the new material, the
\* one asked for unless it is taken
RECURSIVE NewMaterialName(_, _, _)
NewMaterialName(table, name, n) ==
    IF n = 0 /\ name \notin table THEN name
    ELSE IF n > 0 /\ (name \o ".00" \o ToString(n)) \notin table
    THEN name \o ".00" \o ToString(n)
    ELSE NewMaterialName(table, name, n + 1)

\* line 444, the else branch: bpy.data.materials[name] is read
BindsExisting(reuse_material, name, table) ==
    ~(reuse_material /\ name \notin table)

\* lines 437-486: the materials of the file from position k on; w is the
\* call so far: self.materials (bound, a name of the file to the name of a
\* material of the host), bpy.data.materials (table), and whether
\* bpy.data.materials[name] raised KeyError
RECURSIVE BindMaterials(_, _, _, _)
BindMaterials(names, k, reuse_material, w) ==
    IF k > Len(names) \/ w.raised THEN w
    ELSE LET name == names[k]
             new == NewMaterialName(w.table, name, 0)
         IN  BindMaterials(names, k + 1, reuse_material,
                 IF ~BindsExisting(reuse_material, name, w.table)
                 THEN [w EXCEPT !.bound = (name :> new) @@ @, !.table = @ \cup {new}]
                 ELSE IF name \in w.table
                 THEN [w EXCEPT !.bound = (name :> name) @@ @]
                 ELSE [w EXCEPT !.raised = TRUE])

\* lines 424-486: write_materials on a host whose materials are table
write_materials(names, reuse_material, table) ==
    LET new == NewMaterialName(table, "Material", 0)
        w == IF reuse_material /\ "Material" \in table
             THEN [bound |-> ("Material" :> "Material"), table |-> table, raised |-> FALSE]
             ELSE [bound |-> ("Material" :> new), table |-> table \cup {new},
                   raised |-> FALSE]
    IN  BindMaterials(names, 1, reuse_material, w)

\* FromFileErrorReturn with load going on after the error
FromFileErrorGoesOn == "analyze"

\* line 193: load returns
FromFileErrorReturn == "failed"

\* lines 163-193: sketchup.Model.from_file raises
load_from_file_error ==
    /\ pc = "idle"
    /\ wh.pc = "idle"
    /\ component_stats' = <<>>
    /\ component_skip' = {}
    /\ component_depth' = <<>>
    /\ group_written' = <<>>
    /\ log' = Append(log, [op |-> "from_file_error"])
    /\ pc' = FromFileErrorReturn
    /\ \E opts \in Options :
          /\ max_instance' = opts.max_instance
          /\ reuse_group' = opts.reuse_existing_groups
    /\ UNCHANGED <<dl, search, host, wh, materials, skp_model, layers_skip, dedub_type, component_meshes,
                   meshes, objects, collections, analysed, stats, loop, stack>>

Load(model, opts) ==
    /\ pc = "idle"
    /\ wh.pc = "idle"
    /\ skp_model' = model
    /\ max_instance' = opts.max_instance
    /\ reuse_group' = opts.reuse_existing_groups
    /\ layers_skip' = opts.layers_skip
    /\ component_stats' = <<>>
    /\ component_skip' = {}
    /\ group_written' = <<>>
    /\ component_depth' = [n \in DefNames |-> component_deps(component_definitions[n])]
    /\ analysed' = <<>>
    /\ stats' = <<>>
    /\ stack' = <<Frame(model, "Sketchup", Identity, "Material", EntityType.none,
                        "", FALSE, 0, 0, <<>>)>>
    /\ collections' = create_nested_collection(
                         create_nested_collection(collections, "SKP Scenes (as Cameras)"),
                         "SKP Components")
    /\ objects' = write_camera(objects, SkpScenes)
    \* reuse_material at its default (True, line 1015), a host without materials
    /\ materials' = DOMAIN write_materials(SkpMaterials, TRUE, {}).bound
    /\ pc' = "analyze"
    /\ UNCHANGED <<dl, search, host, wh, dedub_type, component_meshes, meshes, loop, log>>

(***************************************************************************)
(* analyze_entities                                                        *)
(***************************************************************************)
\* AnalyzeVisible without the test of the layer
AnalyzeVisibleAlways(layer) == TRUE

\* lines 391 and 404: the child is not on a layer to skip
AnalyzeVisible(layer) == ~(layers_skip # {} /\ layer \in layers_skip)

\* AnalyzeSkip holding a pair
AnalyzeSkipLeaf == {<<"A", "Material">>}

\* lines 386-387: no caller passes component_skip, so it is the empty list
AnalyzeSkip == {}

AnalyzeChildren(f) ==
    LET gs == f.ent.groups
        is == f.ent.instances
        gi == SelectIdx(gs, {k \in DOMAIN gs : AnalyzeVisible(gs[k].layer)})
        ii == SelectIdx(is, {k \in DOMAIN is :
                  /\ AnalyzeVisible(is[k].layer)
                  /\ <<is[k].definition,
                       inherent_default_mat(is[k].material, f.mat)>>
                        \notin AnalyzeSkip})
    IN  [j \in 1..Len(gi) |->
            LET g == gs[gi[j]]
            IN  Frame(g.entities, "G-" \o g.name, Compose(f.transform, g.transform),
                      inherent_default_mat(g.material, f.mat), EntityType.group,
                      "", f.hid \/ g.layer \in layers_skip, 0, 0,
                      PathTo(f, "group", gi[j], g))]
        \o
        [j \in 1..Len(ii) |->
            LET i == is[ii[j]]
            IN  Frame(component_definitions[i.definition], i.definition,
                      Compose(f.transform, i.transform),
                      inherent_default_mat(i.material, f.mat), EntityType.component,
                      i.definition, f.hid \/ i.layer \in layers_skip, 0, 0,
                      PathTo(f, "instance", ii[j], i))]

Event(op, f, mesh) ==
    [op |-> op, name |-> f.name, mat |-> f.mat, etype |-> f.etype,
     defname |-> f.defname, transform |-> f.transform, hid |-> f.hid,
     mesh |-> mesh, skip |-> component_skip, written |-> DOMAIN group_written,
     ent |-> f.ent, path |-> f.path, ob |-> 0, cache |-> DOMAIN component_meshes]

analyze_entities ==
    /\ pc = "analyze"
    /\ stack # <<>>
    /\ LET f == Head(stack)
       IN  /\ analysed' = IF f.etype = EntityType.component
                          THEN AppendTo(analysed, <<f.name, f.mat>>, f.transform)
                          ELSE analysed
           /\ stack' = AnalyzeChildren(f) \o Tail(stack)
           /\ log' = Append(log, Event("analyze", f, 0))
    /\ UNCHANGED <<dl, search, host, wh, materials, pc, skp_model, max_instance, reuse_group, layers_skip, dedub_type,
                   component_depth, component_stats, component_skip, group_written,
                   component_meshes, meshes, objects, collections, stats, loop>>

(***************************************************************************)
(* write_mesh_data: the mesh of the key (name, default_material), built on *)
(* the first call that finds vertices and cached under the key.  0 stands  *)
(* for None.  The result is the mesh with the new bpy.data.meshes and      *)
(* self.component_meshes.                                                  *)
(***************************************************************************)
\* MaterialSlots with the global default for the faces without a material
MaterialSlotsGlobal(faces, default_material, seen) ==
    seen \o [j \in 1..Len(faces) |-> IF faces[j] # "" THEN faces[j] ELSE "Material"]

\* lines 508-513 and 568-575: the material slots, in first-seen order
RECURSIVE MaterialSlots(_, _, _)
MaterialSlots(faces, default_material, seen) ==
    IF faces = <<>> THEN seen
    ELSE LET m == IF Head(faces) # "" THEN Head(faces) ELSE default_material
         IN  MaterialSlots(Tail(faces), default_material,
                           IF \E j \in 1..Len(seen) : seen[j] = m THEN seen
                           ELSE Append(seen, m))

\* BindMaterial with the slot of an unknown name left without material
BindMaterialOrNone(k) == IF k \in materials THEN k ELSE ""

\* lines 571-574: the material bound to the slot of the name k
BindMaterial(k) == IF k \in materials THEN k ELSE "Material"

\* lines 568-575: me.materials, one material appended per slot, in the order
\* of the slots
BoundSlots(slots) == [k \in 1..Len(slots) |-> BindMaterial(slots[k])]

\* MeshCached with the cache never asked
MeshNeverCached(mesh_key) == FALSE

\* NoVertices with no face set taken as empty
NoVerticesNever(entities) == FALSE

\* line 563: the faces gave no vertex
NoVertices(entities) == Len(entities.faces) = 0

\* lines 495-497: the cache is asked first
MeshCached(mesh_key) == mesh_key \in DOMAIN component_meshes

write_mesh_data(entities, name, default_material) ==
    LET mesh_key == <<name, default_material>>
    IN  IF MeshCached(mesh_key)
        THEN [me |-> component_meshes[mesh_key], meshes |-> meshes,
              component_meshes |-> component_meshes]
        ELSE IF NoVertices(entities)
        THEN [me |-> 0, meshes |-> meshes, component_meshes |-> component_meshes]
        ELSE [me |-> Len(meshes) + 1,
              meshes |-> Append(meshes,
                                [name |-> UniqueName(meshes, name), key |-> mesh_key,
                                 entities |-> entities,
                                 materials |-> MaterialSlots(entities.faces,
                                                             default_material, <<>>),
                                 bound |-> BoundSlots(
                                              MaterialSlots(entities.faces,
                                                            default_material, <<>>))]),
              component_meshes |-> (mesh_key :> (Len(meshes) + 1)) @@ component_meshes]

(***************************************************************************)
(* bpy.data.objects.new, with what the model remembers of the call that    *)
(* made the object: the pass, and the frame of the call.                   *)
(***************************************************************************)
Object(objs, name, me, matrix, parent, coll, by, f) ==
    [name |-> UniqueName(objs, name), data |-> me, matrix_world |-> matrix,
     parent |-> parent, instance_collection |-> coll, by |-> by,
     etype |-> f.etype, defname |-> f.defname, mat |-> f.mat, hid |-> f.hid]

(***************************************************************************)
(* instance_object_or_group: an object that instances the collection of    *)
(* the key, else an object on the cached mesh of the key, else KeyError.   *)
(***************************************************************************)
instance_object_or_group(name, default_material) ==
    LET key == <<name, default_material>>
    IN  IF key \in DOMAIN group_written
        THEN [kind |-> "COLLECTION", data |-> 0, instance_collection |-> group_written[key]]
        ELSE IF key \in DOMAIN component_meshes
        THEN [kind |-> "MESH", data |-> component_meshes[key], instance_collection |-> 0]
        ELSE [kind |-> "KeyError", data |-> 0, instance_collection |-> 0]

(***************************************************************************)
(* write_duplicateable_groups, after the analysis: the threshold filter    *)
(* and the loops over the depths and the filtered pairs.                   *)
(***************************************************************************)
\* line 342
max_depth ==
    LET ds == {component_depth[n] : n \in DOMAIN component_depth}
    IN  IF ds = {} THEN 0 ELSE CHOOSE d \in ds : \A e \in ds : e <= d

\* OverThreshold with the comparison off by one
OverThresholdStrict(v) == Len(v) > max_instance

\* line 349: the pair occurs often enough
OverThreshold(v) == Len(v) >= max_instance

\* LeafDepth with no depth left alone
LeafDepthNever(depth) == FALSE

\* line 356: the pair is left alone
LeafDepth(depth) == depth = 1

\* DepthTurn with every pair taken in every round
DepthTurnAny(depth, i) == TRUE

\* line 359: the pair is materialised in this round of the outer loop
DepthTurn(depth, i) == depth = i

FilterStats(d) ==
    LET keep == SelectIdx(d, {k \in DOMAIN d : OverThreshold(d[k].v)})
    IN  [j \in 1..Len(keep) |-> d[keep[j]]]

\* the position after (i, k) in "for i in range(max_depth + 1): for k, v in items"
Advance(l, n) ==
    IF l.k < n THEN [i |-> l.i, k |-> l.k + 1] ELSE [i |-> l.i + 1, k |-> 1]

filter_component_stats ==
    /\ pc = "analyze"
    /\ stack = <<>>
    /\ stats' = FilterStats(analysed)
    /\ loop' = IF FilterStats(analysed) = <<>> THEN [i |-> max_depth + 1, k |-> 1]
               ELSE [i |-> 0, k |-> 1]
    /\ pc' = "groups"
    /\ UNCHANGED <<dl, search, host, wh, materials, skp_model, max_instance, reuse_group, layers_skip, dedub_type,
                   component_depth, component_stats, component_skip, group_written,
                   component_meshes, meshes, objects, collections, analysed, stack, log>>

InLoop == pc = "groups" /\ loop.i <= max_depth

LoopKey == stats[loop.k].key

LoopDepth == component_depth[LoopKey[1]]

\* lines 356-358
leave_leaf_depth ==
    /\ InLoop
    /\ LeafDepth(LoopDepth)
    /\ loop' = Advance(loop, Len(stats))
    /\ UNCHANGED <<dl, search, host, wh, materials, pc, skp_model, max_instance, reuse_group, layers_skip, dedub_type,
                   component_depth, component_stats, component_skip, group_written,
                   component_meshes, meshes, objects, collections, analysed, stats, stack, log>>

\* line 359, not taken
other_depth ==
    /\ InLoop
    /\ ~LeafDepth(LoopDepth)
    /\ ~DepthTurn(LoopDepth, loop.i)
    /\ loop' = Advance(loop, Len(stats))
    /\ UNCHANGED <<dl, search, host, wh, materials, pc, skp_model, max_instance, reuse_group, layers_skip, dedub_type,
                   component_depth, component_stats, component_skip, group_written,
                   component_meshes, meshes, objects, collections, analysed, stats, stack, log>>

GroupEvent(op, key, coll) ==
    [op |-> op, key |-> key, depth |-> component_depth[key[1]], group |-> coll,
     skip |-> component_skip, written |-> DOMAIN group_written,
     ncollections |-> Len(collections), nobjects |-> Len(objects)]

\* ReuseGroup with the option never honoured
ReuseGroupNever(gname) == FALSE

\* line 361: the collection of that name is taken instead of a new one
ReuseGroup(gname) == reuse_group /\ gname \in NamesOf(collections)

\* GroupWritten that records nothing
GroupWrittenNot(key, coll) == group_written

\* lines 364-365 and 376: self.group_written[(name, mat)] = group
GroupWritten(key, coll) == (key :> coll) @@ group_written

\* lines 361-365
reuse_existing_group ==
    /\ InLoop
    /\ ~LeafDepth(LoopDepth)
    /\ DepthTurn(LoopDepth, loop.i)
    /\ LET gname == group_name(LoopKey[1], LoopKey[2])
       IN  /\ ReuseGroup(gname)
           /\ component_skip' = component_skip \cup {LoopKey}
           /\ group_written' = GroupWritten(LoopKey, CollectionNamed(gname))
           /\ log' = Append(log, GroupEvent("reuse", LoopKey, CollectionNamed(gname)))
    /\ loop' = Advance(loop, Len(stats))
    /\ UNCHANGED <<dl, search, host, wh, materials, pc, skp_model, max_instance, reuse_group, layers_skip, dedub_type,
                   component_depth, component_stats, component_meshes, meshes,
                   objects, collections, analysed, stats, stack>>

\* lines 367-374: the new collection and the call of component_def_as_group
new_group ==
    /\ InLoop
    /\ ~LeafDepth(LoopDepth)
    /\ DepthTurn(LoopDepth, loop.i)
    /\ LET gname == group_name(LoopKey[1], LoopKey[2])
       IN  /\ ~ReuseGroup(gname)
           /\ collections' = Append(collections,
                                    Collection(UniqueName(collections, gname), <<>>))
           /\ stack' = <<Frame(component_definitions[LoopKey[1]], LoopKey[1], Identity,
                               LoopKey[2], EntityType.outer, LoopKey[1], FALSE, 0,
                               Len(collections) + 1, <<>>)>>
           /\ log' = Append(log, GroupEvent("new", LoopKey, Len(collections) + 1))
    /\ pc' = "component_def_as_group"
    /\ UNCHANGED <<dl, search, host, wh, materials, skp_model, max_instance, reuse_group, layers_skip, dedub_type,
                   component_depth, component_stats, component_skip, group_written,
                   component_meshes, meshes, objects, analysed, stats, loop>>

\* lines 375-376: component_def_as_group has returned
group_written_done ==
    /\ pc = "component_def_as_group"
    /\ stack = <<>>
    /\ component_skip' = component_skip \cup {LoopKey}
    /\ group_written' = GroupWritten(LoopKey, Len(collections))
    /\ loop' = Advance(loop, Len(stats))
    /\ pc' = "groups"
    /\ UNCHANGED <<dl, search, host, wh, materials, skp_model, max_instance, reuse_group, layers_skip, dedub_type,
                   component_depth, component_stats, component_meshes, meshes,
                   objects, collections, analysed, stats, stack, log>>

(***************************************************************************)
(* component_def_as_group                                                  *)
(***************************************************************************)
\* lines 813 and 824
GroupVisible(layer) == ~(layers_skip # {} /\ layer \in layers_skip)

GroupChildren(f) ==
    LET gs == f.ent.groups
        is == f.ent.instances
        gi == SelectIdx(gs, {k \in DOMAIN gs : GroupVisible(gs[k].layer)})
        ii == SelectIdx(is, {k \in DOMAIN is : GroupVisible(is[k].layer)})
    IN  [j \in 1..Len(gi) |->
            LET g == gs[gi[j]]
            IN  Frame(g.entities, "G-" \o g.name, Compose(f.transform, g.transform),
                      inherent_default_mat(g.material, f.mat), EntityType.group,
                      "", f.hid \/ g.layer \in layers_skip, 0, f.group,
                      PathTo(f, "group", gi[j], g))]
        \o
        [j \in 1..Len(ii) |->
            LET i == is[ii[j]]
            IN  Frame(component_definitions[i.definition], i.definition,
                      Compose(f.transform, i.transform),
                      inherent_default_mat(i.material, f.mat), EntityType.component,
                      i.definition, f.hid \/ i.layer \in layers_skip, 0, f.group,
                      PathTo(f, "instance", ii[j], i))]

\* lines 778-785: ComponentSkip after the outer call has marked its pair
SkipAfterOuter(f) ==
    IF f.etype = EntityType.outer THEN component_skip \cup {<<f.name, f.mat>>}
    ELSE component_skip

\* lines 786-787
GroupReference(f) ==
    f.etype = EntityType.component /\ <<f.name, f.mat>> \in SkipAfterOuter(f)

\* lines 786-796: a nested component that has its collection is instanced
component_def_as_group_reference ==
    /\ pc = "component_def_as_group"
    /\ stack # <<>>
    /\ LET f == Head(stack)
           r == instance_object_or_group(f.name, f.mat)
       IN  /\ GroupReference(f)
           /\ IF r.kind = "KeyError"
              THEN /\ pc' = "KeyError"
                   /\ UNCHANGED <<objects, collections, stack>>
              ELSE /\ objects' = Append(objects,
                                        Object(objects, f.name, r.data, f.transform, 0,
                                               r.instance_collection, "group", f))
                   /\ collections' = [collections EXCEPT
                                        ![f.group].objects = Append(@, Len(objects) + 1)]
                   /\ stack' = Tail(stack)
                   /\ pc' = pc
           /\ log' = Append(log, Event("group_reference", f, r.data))
    /\ UNCHANGED <<dl, search, host, wh, materials, skp_model, max_instance, reuse_group, layers_skip, dedub_type,
                   component_depth, component_stats, component_skip, group_written,
                   component_meshes, meshes, analysed, stats, loop>>

\* lines 778-785 and 797-834: the mesh of the node, then its children
component_def_as_group_mesh ==
    /\ pc = "component_def_as_group"
    /\ stack # <<>>
    /\ LET f == Head(stack)
           w == write_mesh_data(f.ent, f.name, f.mat)
       IN  /\ ~GroupReference(f)
           /\ IF f.etype = EntityType.outer /\ <<f.name, f.mat>> \in component_skip
              THEN /\ stack' = Tail(stack)
                   /\ UNCHANGED <<component_skip, meshes, component_meshes, objects,
                                  collections, log>>
              ELSE /\ component_skip' = SkipAfterOuter(f)
                   /\ meshes' = w.meshes
                   /\ component_meshes' = w.component_meshes
                   /\ IF w.me # 0
                      THEN /\ objects' = Append(objects,
                                                Object(objects, f.name, w.me, f.transform,
                                                       0, 0, "group", f))
                           /\ collections' = [collections EXCEPT
                                                ![f.group].objects = Append(@, Len(objects) + 1)]
                      ELSE UNCHANGED <<objects, collections>>
                   /\ stack' = GroupChildren(f) \o Tail(stack)
                   /\ log' = Append(log, [Event("group_mesh", f, w.me) EXCEPT
                                            !.skip = SkipAfterOuter(f)])
    /\ UNCHANGED <<dl, search, host, wh, materials, pc, skp_model, max_instance, reuse_group, layers_skip, dedub_type,
                   component_depth, component_stats, group_written, analysed, stats, loop>>

(***************************************************************************)
(* load, after write_duplicateable_groups: with dedub_only it returns,     *)
(* else it calls write_entities on the root.  The options dedub_only and   *)
(* dedub_type are read by load only from here on, so their values are      *)
(* drawn here.                                                             *)
(***************************************************************************)
\* GroupsDone without waiting for the loops to end
GroupsDoneEarly == pc = "groups"

\* lines 294-301: write_duplicateable_groups has returned
GroupsDone == pc = "groups" /\ loop.i > max_depth

load_groups_only ==
    /\ GroupsDone
    /\ pc' = "done"
    /\ UNCHANGED <<dl, search, host, wh, materials, skp_model, max_instance, reuse_group, layers_skip, dedub_type,
                   component_depth, component_stats, component_skip, group_written,
                   component_meshes, meshes, objects, collections, analysed, stats, loop,
                   stack, log>>

load_write_entities(type) ==
    /\ GroupsDone
    /\ dedub_type' = type
    /\ stack' = <<Frame(skp_model, "_(Loose Entity)", Identity, "Material",
                        EntityType.none, "", FALSE, 0, 0, <<>>)>>
    /\ loop' = [i |-> 0, k |-> 1]
    /\ collections' = create_nested_collection(collections, "SKP Mesh Objects")
    /\ pc' = "write"
    /\ UNCHANGED <<dl, search, host, wh, materials, skp_model, max_instance, reuse_group, layers_skip,
                   component_depth, component_stats, component_skip, group_written,
                   component_meshes, meshes, objects, analysed, stats, log>>

(***************************************************************************)
(* write_entities.  The frame of a nested group holds the group's own      *)
(* name: the temporary object that gives the group its unique name is made *)
(* right before the call, that is when the frame is taken from the stack.  *)
(***************************************************************************)
\* lines 713-716 and 731-734
WriteVisible(hidden, layer) ==
    ~hidden /\ ~(layers_skip # {} /\ layer \in layers_skip)

\* lines 738-741
ComponentObjectName(instance_name, cdef_name) ==
    IF instance_name = "" THEN "C-" \o cdef_name
    ELSE instance_name \o " (C-" \o cdef_name \o ")"

WriteChildren(f, ob) ==
    LET gs == f.ent.groups
        is == f.ent.instances
        gi == SelectIdx(gs, {k \in DOMAIN gs : WriteVisible(gs[k].hidden, gs[k].layer)})
        ii == SelectIdx(is, {k \in DOMAIN is : WriteVisible(is[k].hidden, is[k].layer)})
    IN  [j \in 1..Len(gi) |->
            LET g == gs[gi[j]]
            IN  Frame(g.entities, g.name, Compose(f.transform, g.transform),
                      inherent_default_mat(g.material, f.mat), EntityType.group,
                      "", f.hid \/ g.layer \in layers_skip, ob, 0,
                      PathTo(f, "group", gi[j], g))]
        \o
        [j \in 1..Len(ii) |->
            LET i == is[ii[j]]
            IN  Frame(component_definitions[i.definition],
                      ComponentObjectName(i.name, i.definition),
                      Compose(f.transform, i.transform),
                      inherent_default_mat(i.material, f.mat), EntityType.component,
                      i.definition, f.hid \/ i.layer \in layers_skip, ob, 0,
                      PathTo(f, "instance", ii[j], i))]

\* lines 717-718: the objects after the temporary object of a group
WithTemp(f) ==
    IF f.etype = EntityType.group
    THEN Append(objects, Object(objects, f.name, 0, Identity, 0, 0, "temp", f))
    ELSE objects

\* line 718 for a group; the name passed for the root and for an instance
WriteName(f) ==
    IF f.etype = EntityType.group
    THEN "G-" \o group_safe_name(UniqueName(objects, f.name))
    ELSE f.name

\* WriteSkip for every pair that passed the threshold filter
WriteSkipOverThreshold(f) ==
    f.etype = EntityType.component /\ HasKey(stats, <<f.defname, f.mat>>)

\* lines 652-653: the component has been written as a group
WriteSkip(f) ==
    f.etype = EntityType.component /\ <<WriteName(f), f.mat>> \in component_skip

\* lines 654-656
write_entities_skip ==
    /\ pc = "write"
    /\ stack # <<>>
    /\ LET f == Head(stack)
       IN  /\ WriteSkip(f)
           /\ component_stats' = AppendTo(component_stats, <<WriteName(f), f.mat>>,
                                          f.transform)
           /\ stack' = Tail(stack)
           /\ log' = Append(log, Event("write_skip", f, 0))
    /\ UNCHANGED <<dl, search, host, wh, materials, pc, skp_model, max_instance, reuse_group, layers_skip, dedub_type,
                   component_depth, component_skip, group_written, component_meshes,
                   meshes, objects, collections, analysed, stats, loop>>

\* lines 702-704: the parent of the new object
ParentOf(f, objs) ==
    IF f.parent # 0 /\ objs[f.parent].name # "_(Loose Entity)" THEN f.parent ELSE 0

NestedCount(f) == Len(f.ent.groups) + Len(f.ent.instances)

\* WritesMeshObject with the mesh put on the node whatever it contains
WritesMeshObjectAlways(f) == TRUE

\* line 674
WritesMeshObject(f) == NestedCount(f) = 0 \/ WriteName(f) = "_(Loose Entity)"

\* lines 658-680 and 697-750: one object holding the mesh
write_entities_object ==
    /\ pc = "write"
    /\ stack # <<>>
    /\ LET f == Head(stack)
           name == WriteName(f)
           w == write_mesh_data(f.ent, name, f.mat)
           objs == WithTemp(f)
           ob == Len(objs) + 1
       IN  /\ ~WriteSkip(f)
           /\ WritesMeshObject(f)
           /\ meshes' = w.meshes
           /\ component_meshes' = w.component_meshes
           /\ objects' = Append(objs, Object(objs, name, w.me, f.transform,
                                             ParentOf(f, objs), 0, "write", f))
           /\ stack' = WriteChildren(f, ob) \o Tail(stack)
           /\ log' = Append(log, [Event("write", f, w.me) EXCEPT !.name = name,
                                                                 !.ob = ob])
    /\ UNCHANGED <<dl, search, host, wh, materials, pc, skp_model, max_instance, reuse_group, layers_skip, dedub_type,
                   component_depth, component_stats, component_skip, group_written,
                   collections, analysed, stats, loop>>

\* lines 658-672 and 681-750: an empty object, with the loose mesh under it
write_entities_empty ==
    /\ pc = "write"
    /\ stack # <<>>
    /\ LET f == Head(stack)
           name == WriteName(f)
           w == write_mesh_data(f.ent, name, f.mat)
           objs == WithTemp(f)
           ob == Len(objs) + 1
           empty == Object(objs, name, 0, f.transform, ParentOf(f, objs), 0, "write", f)
           objs1 == Append(objs, empty)
       IN  /\ ~WriteSkip(f)
           /\ ~WritesMeshObject(f)
           /\ meshes' = w.meshes
           /\ component_meshes' = w.component_meshes
           /\ objects' = IF w.me # 0
                         THEN Append(objs1,
                                     Object(objs1, "_" \o name \o " (Loose Mesh)", w.me,
                                            f.transform, ob, 0, "loose", f))
                         ELSE objs1
           /\ stack' = WriteChildren(f, ob) \o Tail(stack)
           /\ log' = Append(log, [Event("write", f, w.me) EXCEPT !.name = name,
                                                                 !.ob = ob])
    /\ UNCHANGED <<dl, search, host, wh, materials, pc, skp_model, max_instance, reuse_group, layers_skip, dedub_type,
                   component_depth, component_stats, component_skip, group_written,
                   collections, analysed, stats, loop>>

(***************************************************************************)
(* The final instancing pass of load: one DUPLI object per cluster of the  *)
(* occurrences of each key of self.component_stats.                        *)
(***************************************************************************)
RECURSIVE ClusterBy(_, _, _)
ClusterBy(v, keys, orientations) ==
    IF v = <<>> THEN orientations
    ELSE ClusterBy(Tail(v), Tail(keys),
                   AppendTo(orientations, Head(keys), Head(v)))

\* VertOrientation without the rotation
VertOrientationScaleOnly(transform) == <<Decompose(transform).scale, 0>>

\* instance_group_dupli_vert, lines 847-856: the key of an occurrence
VertOrientation(transform) ==
    <<Decompose(transform).scale, Decompose(transform).rot>>

\* instance_group_dupli_face, lines 892-899: the key of an occurrence
FaceOrientation(transform) == Decompose(transform).scale

Minus(p, q) == <<p[1] - q[1], p[2] - q[2]>>

\* VertVerts with the locations as they are
VertVertsAbsolute(transforms) ==
    [j \in 1..Len(transforms) |-> Decompose(transforms[j]).loc]

\* lines 863-866: the vertices of the point mesh of a cluster
VertVerts(transforms) ==
    [j \in 1..Len(transforms) |->
        Minus(Decompose(transforms[j]).loc, Decompose(transforms[1]).loc)]

\* lines 903-920: the quad of each occurrence: its place and its rotation
FaceVerts(transforms) ==
    [j \in 1..Len(transforms) |->
        [loc |-> Minus(Decompose(transforms[j]).loc, Decompose(transforms[1]).loc),
         rot |-> Decompose(transforms[j]).rot]]

Instancing == pc = "write" /\ stack = <<>>

\* the meshes and objects after the clusters cs, from position j on
RECURSIVE DupliBlocks(_, _, _, _, _, _)
DupliBlocks(cs, j, key, type, ms, objs) ==
    IF j > Len(cs) THEN [meshes |-> ms, objects |-> objs, error |-> FALSE]
    ELSE LET c == cs[j]
             first == Decompose(c.v[1])
             r == instance_object_or_group(key[1], key[2])
             dme == [name |-> UniqueName(ms, "DUPLI-" \o key[1]), key |-> <<>>,
                     entities |-> NoModel, materials |-> <<>>, bound |-> <<>>,
                     vertices |-> IF type = "VERTEX" THEN VertVerts(c.v)
                                  ELSE FaceVerts(c.v)]
             info == [etype |-> EntityType.component, defname |-> key[1],
                      mat |-> key[2], hid |-> FALSE]
             dob == [Object(objs, "DUPLI-" \o key[1], Len(ms) + 1,
                            Translation(first.loc[1], first.loc[2]), 0, 0, "dupli", info)
                     EXCEPT !.by = "dupli"]
             objs1 == Append(objs, dob)
             ob == [name |-> UniqueName(objs1, key[1]), data |-> r.data,
                    matrix_world |-> Identity, parent |-> Len(objs) + 1,
                    instance_collection |-> r.instance_collection, by |-> "instance",
                    etype |-> EntityType.component, defname |-> key[1], mat |-> key[2],
                    hid |-> FALSE, scale |-> first.scale,
                    rot |-> IF type = "VERTEX" THEN first.rot ELSE 0]
         IN  IF r.kind = "KeyError"
             THEN [meshes |-> Append(ms, dme), objects |-> objs1, error |-> TRUE]
             ELSE DupliBlocks(cs, j + 1, key, type, Append(ms, dme), Append(objs1, ob))

DupliEvent(type, key, cs) ==
    [op |-> "dupli", type |-> type, key |-> key, clusters |-> cs,
     skip |-> component_skip, written |-> DOMAIN group_written,
     v |-> Lookup(component_stats, key), mesh0 |-> Len(meshes), ob0 |-> Len(objects)]

\* instance_group_dupli_vert, for the next key of self.component_stats
instance_group_dupli_vert ==
    /\ Instancing
    /\ loop.k <= Len(component_stats)
    /\ dedub_type = "VERTEX"
    /\ LET key == component_stats[loop.k].key
           v == Lookup(component_stats, key)
           cs == ClusterBy(v, [k \in DOMAIN v |-> VertOrientation(v[k])], <<>>)
           d == DupliBlocks(cs, 1, key, "VERTEX", meshes, objects)
       IN  /\ meshes' = d.meshes
           /\ objects' = d.objects
           /\ pc' = IF d.error THEN "KeyError" ELSE pc
           /\ log' = Append(log, DupliEvent("VERTEX", key, cs))
    /\ loop' = [loop EXCEPT !.k = @ + 1]
    /\ UNCHANGED <<dl, search, host, wh, materials, skp_model, max_instance, reuse_group, layers_skip, dedub_type,
                   component_depth, component_stats, component_skip, group_written,
                   component_meshes, collections, analysed, stats, stack>>

\* instance_group_dupli_face, for the next key of self.component_stats
instance_group_dupli_face ==
    /\ Instancing
    /\ loop.k <= Len(component_stats)
    /\ dedub_type = "FACE"
    /\ LET key == component_stats[loop.k].key
           v == Lookup(component_stats, key)
           cs == ClusterBy(v, [k \in DOMAIN v |-> FaceOrientation(v[k])], <<>>)
           d == DupliBlocks(cs, 1, key, "FACE", meshes, objects)
       IN  /\ meshes' = d.meshes
           /\ objects' = d.objects
           /\ pc' = IF d.error THEN "KeyError" ELSE pc
           /\ log' = Append(log, DupliEvent("FACE", key, cs))
    /\ loop' = [loop EXCEPT !.k = @ + 1]
    /\ UNCHANGED <<dl, search, host, wh, materials, skp_model, max_instance, reuse_group, layers_skip, dedub_type,
                   component_depth, component_stats, component_skip, group_written,
                   component_meshes, collections, analysed, stats, stack>>

load_finished ==
    /\ Instancing
    /\ loop.k > Len(component_stats)
    /\ pc' = "done"
    /\ UNCHANGED <<dl, search, host, wh, materials, skp_model, max_instance, reuse_group, layers_skip, dedub_type,
                   component_depth, component_stats, component_skip, group_written,
                   component_meshes, meshes, objects, collections, analysed, stats, loop,
                   stack, log>>

(***************************************************************************)
(* ImportSketchupWarehouseGLB.execute.  The locals of the call are the     *)
(* fields of wh.  What the network and the two import operators answer is  *)
(* drawn at the step that asks them; wh.attempts and wh.glb keep what was  *)
(* asked (history).                                                        *)
(***************************************************************************)
importer_vars ==
    <<pc, skp_model, max_instance, reuse_group, layers_skip, dedub_type,
      component_depth, component_stats, component_skip, group_written,
      component_meshes, meshes, objects, collections, analysed, stats, loop, stack, log,
      materials>>

\* the keys a 'binaries' object may have
BinaryKeys == {"s5", "s05", "s4", "glb"}

\* the entries a 'binaries' object may have: a key with its 'url' and
\* 'contentUrl' ("" when the entry has none)
BinaryEntries ==
    {[key |-> k, url |-> u, contentUrl |-> ""] : k \in BinaryKeys, u \in {"", "json"}}

\* the 'binaries' objects: entries with distinct keys, in the order of the dict
Binaries ==
    {b \in SeqsUpTo(BinaryEntries, MaxBinaries) :
        \A i, j \in 1..Len(b) : b[i].key = b[j].key => i = j}

\* what the operator is called with: its properties and what _fetch_json
\* answers ("error" when it raises)
\* values of the warehouse_url property: none, one whose id is too short
\* for the pattern of _extract_model_id, one that matches it
WarehouseUrls ==
    {"", "https://3dwarehouse.sketchup.com/model/0123/chair",
     "https://3dwarehouse.sketchup.com/model/0a1b2c3d-0000-4000-8000-0123456789ab/chair"}

WarehouseInputs ==
    [warehouse_url : {"https://3dwarehouse.sketchup.com/model/0a1b2c3d-0000-4000-8000-0123456789ab/chair"},
     direct_download_url : {""}, fallback_to_glb : BOOLEAN, fetch : {"data"},
     binaries : Binaries]
    \cup
    [warehouse_url : WarehouseUrls,
     direct_download_url : {"", "https://download-warehouse.sketchup.com/x"},
     fallback_to_glb : {TRUE}, fetch : {"data", "error"}, binaries : {<<>>}]

\* _extract_model_id: the id in a model URL of the warehouse, "" for None
_extract_model_id(url) ==
    IF url = "https://3dwarehouse.sketchup.com/model/0a1b2c3d-0000-4000-8000-0123456789ab/chair"
    THEN "0a1b2c3d-0000-4000-8000-0123456789ab"
    ELSE ""

\* re.fullmatch(r's(\d{1,2})', key) and int(): the number, -1 without a match
SkpVersion(key) ==
    CASE key = "s5" -> 5
      [] key = "s05" -> 5
      [] key = "s4" -> 4
      [] OTHER -> -1

\* versions.sort(reverse=True)
RECURSIVE SortReverse(_)
SortReverse(versions) ==
    IF versions = <<>> THEN <<>>
    ELSE LET m == CHOOSE i \in 1..Len(versions) :
                     \A j \in 1..Len(versions) : versions[j] <= versions[i]
         IN  <<versions[m]>>
             \o SortReverse([j \in 1..(Len(versions) - 1) |->
                                IF j < m THEN versions[j] ELSE versions[j + 1]])

_extract_latest_skp_versions(binaries) ==
    LET keep == SelectIdx(binaries, {k \in DOMAIN binaries : SkpVersion(binaries[k].key) >= 0})
    IN  SortReverse([j \in 1..Len(keep) |-> SkpVersion(binaries[keep[j]].key)])

_build_skp_url(model_id, version_num) ==
    "https://3dwarehouse.sketchup.com/warehouse/v1.0/entities/" \o model_id
    \o "/binaries/s" \o ToString(version_num) \o "?download=true"

\* lines 1308-1313: the url and the contentUrl of an entry
JsonUrls(val) ==
    (IF val.url # "" THEN <<val.url>> ELSE <<>>)
    \o (IF val.contentUrl # "" /\ val.contentUrl # val.url THEN <<val.contentUrl>> ELSE <<>>)

\* lines 1300-1315: the regenerated URL of every version, then the URLs the
\* JSON gives for every SKP entry that has some
AttemptMap(model_id, binaries) ==
    LET version_nums == _extract_latest_skp_versions(binaries)
        json == SelectIdx(binaries, {k \in DOMAIN binaries :
                              /\ SkpVersion(binaries[k].key) >= 0
                              /\ JsonUrls(binaries[k]) # <<>>})
    IN  [j \in 1..Len(version_nums) |->
            [key |-> "s" \o ToString(version_nums[j]),
             urls |-> <<_build_skp_url(model_id, version_nums[j])>>, regenerated |-> TRUE]]
        \o
        [j \in 1..Len(json) |->
            [key |-> binaries[json[j]].key, urls |-> JsonUrls(binaries[json[j]]),
             regenerated |-> FALSE]]

\* lines 1317-1320: the URL of the 'glb' entry, "" for None
GlbUrl(binaries) ==
    IF \E k \in DOMAIN binaries : binaries[k].key = "glb"
    THEN LET e == binaries[CHOOSE k \in DOMAIN binaries : binaries[k].key = "glb"]
         IN  IF e.url # "" THEN e.url ELSE e.contentUrl
    ELSE ""

Returned(w, result) == [w EXCEPT !.pc = "returned", !.result = result]

\* lines 1266-1325: execute, up to the direct download or the loop
execute(in) ==
    /\ pc = "idle"
    /\ wh.pc = "idle"
    /\ LET model_id == IF in.warehouse_url # "" THEN _extract_model_id(in.warehouse_url)
                        ELSE ""
           w == [pc |-> "loop", result |-> "", in |-> in, model_id |-> model_id,
                 attempt_map |-> <<>>, idx |-> 1, glb_url |-> "",
                 skp_imported |-> FALSE, last_err |-> "", tried_versions |-> {},
                 attempts |-> <<>>, glb |-> ""]
       IN  wh' = IF in.warehouse_url = "" /\ in.direct_download_url = ""
                 THEN Returned(w, "CANCELLED")
                 ELSE IF in.direct_download_url # ""
                 THEN [w EXCEPT !.pc = "direct"]
                 ELSE IF model_id = "" THEN Returned(w, "CANCELLED")
                 ELSE IF in.fetch = "error" THEN Returned(w, "CANCELLED")
                 ELSE [w EXCEPT !.attempt_map = AttemptMap(model_id, in.binaries),
                                !.glb_url = GlbUrl(in.binaries)]
    /\ UNCHANGED <<dl, search, host, importer_vars>>

\* lines 1277-1289: the direct URL only
execute_direct(download, import) ==
    /\ wh.pc = "direct"
    /\ wh' = Returned([wh EXCEPT !.attempts =
                          Append(@, [key |-> "direct", regenerated |-> FALSE,
                                     downloaded |-> download = "path",
                                     imported |-> download = "path" /\ import = "ok"])],
                      IF download = "path" /\ import = "ok" THEN "FINISHED"
                      ELSE "CANCELLED")
    /\ UNCHANGED <<dl, search, host, importer_vars>>

InAttempts == wh.pc = "loop" /\ wh.idx <= Len(wh.attempt_map)

\* TriedVersion with no key remembered
TriedVersionNever(version_key) == FALSE

\* line 1327
TriedVersion(version_key) == version_key \in wh.tried_versions

\* lines 1327-1328
execute_skip_tried ==
    /\ InAttempts
    /\ TriedVersion(wh.attempt_map[wh.idx].key)
    /\ wh' = [wh EXCEPT !.idx = @ + 1]
    /\ UNCHANGED <<dl, search, host, importer_vars>>

\* lines 1329-1341: one version: the download, then the import of the file
execute_attempt(download, import) ==
    /\ InAttempts
    /\ ~TriedVersion(wh.attempt_map[wh.idx].key)
    /\ LET a == wh.attempt_map[wh.idx]
           ok == download = "path" /\ import = "ok"
       IN  wh' = [wh EXCEPT
                    !.tried_versions = @ \cup {a.key},
                    !.attempts = Append(@, [key |-> a.key, regenerated |-> a.regenerated,
                                            downloaded |-> download = "path",
                                            imported |-> ok]),
                    !.skp_imported = ok,
                    !.last_err = IF ok THEN @
                                 ELSE IF download = "path" THEN "import: " \o a.key
                                 ELSE "download: " \o a.key,
                    !.idx = IF ok THEN @ ELSE @ + 1,
                    !.pc = IF ok THEN "after_loop" ELSE @]
    /\ UNCHANGED <<dl, search, host, importer_vars>>

AfterAttempts ==
    \/ wh.pc = "after_loop"
    \/ wh.pc = "loop" /\ wh.idx > Len(wh.attempt_map)

\* lines 1342-1343
execute_imported ==
    /\ AfterAttempts
    /\ wh.skp_imported
    /\ wh' = Returned(wh, "FINISHED")
    /\ UNCHANGED <<dl, search, host, importer_vars>>

\* line 1345
FallsBackToGlb == ~wh.skp_imported /\ wh.in.fallback_to_glb /\ wh.glb_url # ""

\* lines 1345-1358: the GLB is downloaded and imported
execute_glb_fallback(outcome) ==
    /\ AfterAttempts
    /\ ~wh.skp_imported
    /\ FallsBackToGlb
    /\ wh' = Returned([wh EXCEPT !.glb = outcome],
                      IF outcome = "ok" THEN "FINISHED" ELSE "CANCELLED")
    /\ UNCHANGED <<dl, search, host, importer_vars>>

\* lines 1360-1364
execute_no_skp ==
    /\ AfterAttempts
    /\ ~wh.skp_imported
    /\ ~FallsBackToGlb
    /\ wh' = Returned(wh, "CANCELLED")
    /\ UNCHANGED <<dl, search, host, importer_vars>>

(***************************************************************************)
(* ImportSketchupWarehouseGLB._attempt_download.  The locals of the call   *)
(* are the fields of dl: u is the position in urls, phase the header set   *)
(* of the urllib loop ("primary", "alt") or "wget".  What the server *)
(* answers is drawn at the step that asks it; dl.tries keeps the attempts  *)
(* made (history).                                            *)
(***************************************************************************)
\* the URLs of a call: an entry may be empty
DownloadUrls == SeqsUpTo({"", "https://a"}, MaxUrls)

\* the statuses an HTTPError may carry
HttpCodes == {302, 401, 404}

\* what one attempt may end with: a file with bytes, a file without, an
\* HTTPError with its status, any other exception
DownloadOutcomes ==
    {[kind |-> "file", size |-> n, code |-> 0] : n \in {0, 1}}
    \cup {[kind |-> "HTTPError", size |-> 0, code |-> c] : c \in HttpCodes}
    \cup {[kind |-> "Exception", size |-> 0, code |-> 0]}

\* None, as the value of last_error
NoError == [try |-> 0, kind |-> "None", code |-> 0]

\* line 1196
_attempt_download(urls, cookie) ==
    /\ pc = "idle"
    /\ wh.pc = "idle"
    /\ dl.pc = "idle"
    /\ dl' = [pc |-> "running", urls |-> urls, cookie |-> cookie, u |-> 1, phase |-> "primary",
              last_error |-> NoError, path |-> "", err |-> NoError, tries |-> <<>>]
    /\ UNCHANGED <<search, host, wh, importer_vars>>

InUrls == dl.pc = "running" /\ dl.u <= Len(dl.urls)

\* lines 1197-1198
attempt_skip_empty_url ==
    /\ InUrls
    /\ dl.urls[dl.u] = ""
    /\ dl' = [dl EXCEPT !.u = @ + 1, !.phase = "primary"]
    /\ UNCHANGED <<search, host, wh, importer_vars>>

\* the attempt made now, with what it ended with and the exception it raised
Try(how, out) ==
    [u |-> dl.u, url |-> dl.urls[dl.u], how |-> how, out |-> out,
     error |-> IF out.kind = "file" /\ out.size > 0 THEN NoError
               ELSE [try |-> Len(dl.tries) + 1,
                     kind |-> IF out.kind = "file" THEN "IOError" ELSE out.kind,
                     code |-> out.code]]

\* lines 1212-1222: where the call goes after an HTTPError: 'continue' for
\* a redirect and for 401, else 'break', which leaves the loop over the
\* header sets for the statement after it
AfterHttpError(code, phase) ==
    IF code \in {301, 302, 303, 307, 308} \/ code = 401
    THEN (IF phase = "primary" THEN [u |-> dl.u, phase |-> "alt"] ELSE [u |-> dl.u, phase |-> "wget"])
    ELSE [u |-> dl.u, phase |-> "wget"]

\* lines 1199-1227: one attempt with urllib
attempt_urllib(out) ==
    /\ InUrls
    /\ dl.urls[dl.u] # ""
    /\ dl.phase \in {"primary", "alt"}
    /\ LET t == Try(dl.phase, out)
           to == IF out.kind = "HTTPError" THEN AfterHttpError(out.code, dl.phase)
                 ELSE IF dl.phase = "primary" THEN [u |-> dl.u, phase |-> "alt"]
                 ELSE [u |-> dl.u, phase |-> "wget"]
       IN  dl' = IF t.error = NoError
                 THEN [dl EXCEPT !.pc = "returned", !.path = "file", !.err = NoError,
                                 !.tries = Append(@, t)]
                 ELSE [dl EXCEPT !.last_error = t.error, !.tries = Append(@, t),
                                 !.u = to.u, !.phase = to.phase]
    /\ UNCHANGED <<search, host, wh, importer_vars>>

\* UsesWget whatever the cookie
UsesWgetAlways == TRUE

\* lines 1235-1237
UsesWget == dl.cookie = ""

\* lines 1235-1237: no wget with a cookie
attempt_wget_skipped ==
    /\ InUrls
    /\ dl.phase = "wget"
    /\ ~UsesWget
    /\ dl' = [dl EXCEPT !.u = @ + 1, !.phase = "primary"]
    /\ UNCHANGED <<search, host, wh, importer_vars>>

\* what wget may end with: the call tells no exception of wget from another
WgetOutcomes == {out \in DownloadOutcomes : out.kind # "HTTPError"}

\* lines 1228-1252: the attempt with wget
attempt_wget(out) ==
    /\ InUrls
    /\ dl.phase = "wget"
    /\ UsesWget
    /\ LET t == Try("wget", out)
       IN  dl' = IF t.error = NoError
                 THEN [dl EXCEPT !.pc = "returned", !.path = "file", !.err = NoError,
                                 !.tries = Append(@, t)]
                 ELSE [dl EXCEPT !.last_error = t.error, !.tries = Append(@, t),
                                 !.u = @ + 1, !.phase = "primary"]
    /\ UNCHANGED <<search, host, wh, importer_vars>>

\* line 1253
attempt_return_none ==
    /\ dl.pc = "running"
    /\ dl.u > Len(dl.urls)
    /\ dl' = [dl EXCEPT !.pc = "returned", !.path = "", !.err = dl.last_error]
    /\ UNCHANGED <<search, host, wh, importer_vars>>

(***************************************************************************)
(* SKPWH_OT_Search.execute, up to the paging offset of the request.        *)
(***************************************************************************)
\* the texts of wm.skp_wh_query
Queries == SeqsUpTo({" ", "a"}, MaxQueryLen)

\* the values of the properties page_delta (what the panel sets, lines
\* 1659-1661) and max_results (min 1, max 96)
PageDeltas == {-1, 0, 1}

MaxResults == {1, 2, 3}

\* str.strip
RECURSIVE LStrip(_)
LStrip(text) ==
    IF text # <<>> /\ Head(text) = " " THEN LStrip(Tail(text)) ELSE text

RECURSIVE RStrip(_)
RStrip(text) ==
    IF text # <<>> /\ text[Len(text)] = " " THEN RStrip(SubSeq(text, 1, Len(text) - 1))
    ELSE text

Strip(text) == RStrip(LStrip(text))

\* ClampOffset that lets the offset go below 0
ClampOffsetNone(n) == n

\* line 1478: max(0, n)
ClampOffset(n) == Max2(0, n)

\* lines 1467-1479
search_execute(skp_wh_query, page_delta, max_results) ==
    /\ pc = "idle"
    /\ wh.pc = "idle"
    /\ LET query == Strip(skp_wh_query)
           reset == IF query # search._skp_wh_last_query THEN 0 ELSE search.skp_wh_offset
           offset == IF page_delta # 0 THEN ClampOffset(reset + page_delta * max_results)
                     ELSE reset
           last == [query |-> skp_wh_query, page_delta |-> page_delta,
                    max_results |-> max_results, skp_wh_offset |-> search.skp_wh_offset,
                    _skp_wh_last_query |-> search._skp_wh_last_query]
       IN  /\ offset <= MaxOffset
           /\ search' = IF query = <<>>
                        THEN [search EXCEPT !.result = "CANCELLED", !.last = last]
                        ELSE [skp_wh_offset |-> offset, _skp_wh_last_query |-> query,
                              result |-> "searched", last |-> last]
    /\ UNCHANGED <<dl, host, wh, importer_vars>>

(***************************************************************************)
(* write_materials on its own: for every value of reuse_material and every *)
(* content of bpy.data.materials.  host keeps the call and what it left.   *)
(***************************************************************************)
\* the names of materials of files and of the host
MaterialNames == {"Blue", "Red", "Green"}

\* self.skp_model.materials: no two materials of a file share a name
MaterialLists ==
    {names \in SeqsUpTo(MaterialNames, MaxMaterials) :
        \A i, j \in DOMAIN names : names[i] = names[j] => i = j}

\* line 257, with the value of options['reuse_material'] of line 165
write_materials_call(names, reuse_material, table) ==
    /\ pc = "idle"
    /\ wh.pc = "idle"
    /\ host.pc = "idle"
    /\ LET w == write_materials(names, reuse_material, table)
       IN  host' = [pc |-> IF w.raised THEN "KeyError" ELSE "returned",
                    names |-> names, reuse_material |-> reuse_material,
                    before |-> table, table |-> w.table, materials |-> w.bound]
    /\ UNCHANGED <<dl, search, wh, importer_vars>>

Next ==
    \/ load_from_file_error
    \/ \E model \in Models, opts \in Options : Load(model, opts)
    \/ analyze_entities
    \/ filter_component_stats
    \/ leave_leaf_depth
    \/ other_depth
    \/ reuse_existing_group
    \/ new_group
    \/ group_written_done
    \/ component_def_as_group_reference
    \/ component_def_as_group_mesh
    \/ load_groups_only
    \/ \E type \in {"VERTEX", "FACE"} : load_write_entities(type)
    \/ write_entities_skip
    \/ write_entities_object
    \/ write_entities_empty
    \/ instance_group_dupli_vert
    \/ instance_group_dupli_face
    \/ load_finished

Spec == Init /\ [][Next]_vars

NextWarehouse ==
    \/ \E in \in WarehouseInputs : execute(in)
    \/ \E download \in {"path", "error"}, import \in {"ok", "raise"} :
          execute_direct(download, import)
    \/ execute_skip_tried
    \/ \E download \in {"path", "error"}, import \in {"ok", "raise"} :
          execute_attempt(download, import)
    \/ execute_imported
    \/ \E outcome \in {"ok", "raise"} : execute_glb_fallback(outcome)
    \/ execute_no_skp

SpecWarehouse == Init /\ [][NextWarehouse]_vars

NextDownload ==
    \/ \E urls \in DownloadUrls, cookie \in {"", "session=1"} : _attempt_download(urls, cookie)
    \/ attempt_skip_empty_url
    \/ \E out \in DownloadOutcomes : attempt_urllib(out)
    \/ attempt_wget_skipped
    \/ \E out \in WgetOutcomes : attempt_wget(out)
    \/ attempt_return_none

SpecDownload == Init /\ [][NextDownload]_vars

NextSearch ==
    \E skp_wh_query \in Queries, page_delta \in PageDeltas, max_results \in MaxResults :
        search_execute(skp_wh_query, page_delta, max_results)

SpecSearch == Init /\ [][NextSearch]_vars

NextMaterials ==
    \E names \in MaterialLists, reuse_material \in BOOLEAN,
       table \in SUBSET (MaterialNames \cup {"Material"}) :
        write_materials_call(names, reuse_material, table)

SpecMaterials == Init /\ [][NextMaterials]_vars

(***************************************************************************)
(* Properties.                                                             *)
(***************************************************************************)
LogIdx == 1..Len(log)

ObjIdx == 1..Len(objects)

\* write_duplicateable_groups has returned
AfterGroups == GroupsDone \/ pc \in {"write", "done"}

\* load has returned after the write pass and the final instancing pass
FullyLoaded == pc = "done" /\ dedub_type # ""

Promoted(key) == key \in component_skip /\ key \in DOMAIN group_written

DepthOf(key) == component_depth[key[1]]

\* C1: in the write pass no object is made for a component instance whose
\* (definition name, effective material) pair is in ComponentSkip, whatever
\* the name of the instance: such an instance is only recorded as an
\* occurrence of the pair.
C1_SkippedPairNeverInlined ==
    \A j \in ObjIdx :
        (objects[j].by \in {"write", "loose"} /\ objects[j].etype = EntityType.component)
            => <<objects[j].defname, objects[j].mat>> \notin component_skip

\* the root holds only visible instances of one definition without nested
\* groups or instances, all with the same material and transform
UniformLeafModel ==
    /\ skp_model.groups = <<>>
    /\ skp_model.instances # <<>>
    /\ \A j \in 1..Len(skp_model.instances) :
          /\ skp_model.instances[j] = skp_model.instances[1]
          /\ ~skp_model.instances[j].hidden
          /\ skp_model.instances[j].layer \notin layers_skip
    /\ LET cdef == component_definitions[skp_model.instances[1].definition]
       IN  cdef.groups = <<>> /\ cdef.instances = <<>>

UniformKey ==
    <<skp_model.instances[1].definition,
      inherent_default_mat(skp_model.instances[1].material, "Material")>>

\* the occurrences the final instancing pass placed for the key
RECURSIVE Placed(_, _)
Placed(key, j) ==
    IF j > Len(log) THEN 0
    ELSE (IF log[j].op = "dupli" /\ log[j].key = key
          THEN Len(ConcatAll([c \in 1..Len(log[j].clusters) |-> log[j].clusters[c].v]))
          ELSE 0) + Placed(key, j + 1)

\* C2: with N instances of one leaf component under the root, all alike, and
\* max_instance <= N, a completed load has recorded N occurrences of the pair
\* in the analysis, built one shared group for it, placed N instances of that
\* group in the final instancing pass, and built one mesh from the component.
C2_UniformLeafScenario ==
    (FullyLoaded /\ ~reuse_group /\ UniformLeafModel
        /\ max_instance <= Len(skp_model.instances))
    => /\ Len(Lookup(analysed, UniformKey)) = Len(skp_model.instances)
       /\ Cardinality({j \in LogIdx : log[j].op = "new" /\ log[j].key = UniformKey}) = 1
       /\ UniformKey \in DOMAIN group_written
       /\ Placed(UniformKey, 1) = Len(skp_model.instances)
       /\ Cardinality({j \in 1..Len(meshes) :
                          meshes[j].entities = component_definitions[UniformKey[1]]}) = 1

MeshCalls == {j \in LogIdx : log[j].op \in {"write", "group_mesh"}}

\* C4: any two calls of write_mesh_data with the same key (name, default
\* material) that return a mesh return the same mesh, and bpy.data.meshes
\* holds at most one mesh made for the key.
C4_MeshBuiltOncePerKey ==
    /\ \A i, j \in MeshCalls :
          (log[i].name = log[j].name /\ log[i].mat = log[j].mat
              /\ log[i].mesh # 0 /\ log[j].mesh # 0)
          => log[i].mesh = log[j].mesh
    /\ \A i, j \in 1..Len(meshes) :
          (meshes[i].key # <<>> /\ meshes[i].key = meshes[j].key) => i = j

C4_Witness ==
    \E i, j \in MeshCalls :
        /\ i < j
        /\ log[i].name = log[j].name /\ log[i].mat = log[j].mat
        /\ log[i].mesh # 0 /\ log[j].mesh = log[i].mesh

\* the pass an entry of the log belongs to
PassOf(op) ==
    CASE op = "from_file_error" -> 0
      [] op = "analyze" -> 1
      [] op \in {"new", "reuse", "group_mesh", "group_reference"} -> 2
      [] op \in {"write", "write_skip"} -> 3
      [] op = "dupli" -> 4

\* C5: every call of analyze_entities precedes the first materialisation of
\* a group, every materialisation precedes the first call of write_entities,
\* at which every pair write_duplicateable_groups promotes is promoted, and
\* ComponentSkip is the same at every step of the write pass and of the final
\* instancing pass.
C5_PassesInOrder ==
    /\ \A j \in LogIdx : j > 1 => PassOf(log[j - 1].op) <= PassOf(log[j].op)
    /\ \A j \in LogIdx :
          PassOf(log[j].op) >= 3
          => /\ log[j].skip = component_skip
             /\ log[j].written = DOMAIN group_written
             /\ log[j].skip = log[j].written
             /\ \A e \in 1..Len(stats) :
                   DepthOf(stats[e].key) # 1 => stats[e].key \in log[j].skip

C5_Witness ==
    /\ FullyLoaded
    /\ \A p \in 1..4 : \E j \in LogIdx : PassOf(log[j].op) = p
    /\ \E j \in LogIdx : log[j].op = "write_skip"

\* C6: no call of analyze_entities, write_entities or component_def_as_group
\* is made for a group or an instance whose layer is in layers_skip, nor for
\* anything below one, so none of them adds to ComponentStats or makes an
\* object or a mesh.
C6_HiddenLayersLeftOut ==
    /\ \A j \in LogIdx : log[j].op # "dupli" /\ PassOf(log[j].op) \in {1, 2, 3}
                            /\ log[j].op \notin {"new", "reuse"}
                         => ~log[j].hid
    /\ \A j \in ObjIdx : ~objects[j].hid

C6_Witness ==
    /\ FullyLoaded
    /\ layers_skip = {"L1"}
    /\ \E j \in 1..Len(skp_model.instances) :
          /\ skp_model.instances[j].definition = "D"
          /\ \E g \in 1..Len(component_definitions["D"].groups) :
                component_definitions["D"].groups[g].layer \in layers_skip
          /\ \E i \in 1..Len(component_definitions["D"].instances) :
                component_definitions["D"].instances[i].layer \in layers_skip
    /\ \E j \in LogIdx : log[j].op = "group_mesh" /\ log[j].name = "D"
    /\ \E j \in LogIdx : log[j].op = "write" /\ log[j].defname = "D"
    /\ \E j \in LogIdx : log[j].op = "analyze" /\ log[j].defname = "D"

SameScale(t, u) == Decompose(t).scale = Decompose(u).scale

SameRotation(t, u) == Decompose(t).rot = Decompose(u).rot

SameScaleAndRotation(t, u) == SameScale(t, u) /\ SameRotation(t, u)

\* the clusters of entry j of the log keep two occurrences together exactly
\* when they have the same scale and, if rotation counts, the same rotation
ClusteredBy(j, rotation) ==
    LET cs == log[j].clusters
    IN  \A c1, c2 \in 1..Len(cs) :
            \A a \in 1..Len(cs[c1].v), b \in 1..Len(cs[c2].v) :
                (c1 = c2) <=> IF rotation
                              THEN SameScaleAndRotation(cs[c1].v[a], cs[c2].v[b])
                              ELSE SameScale(cs[c1].v[a], cs[c2].v[b])

\* C7 as claimed: with either instancing style, two occurrences of a pair are
\* in the same cluster exactly when they have the same scale and the same
\* rotation.
C7_ClustersAsClaimed ==
    \A j \in LogIdx :
        log[j].op = "dupli" => ClusteredBy(j, TRUE)

\* C7: instance_group_dupli_vert keeps two occurrences of a pair in the same
\* cluster exactly when they have the same scale and the same rotation;
\* instance_group_dupli_face keeps them in the same cluster exactly when they
\* have the same scale, whatever their rotations; the locations play no part.
C7_Clusters ==
    \A j \in LogIdx :
        log[j].op = "dupli"
        => IF log[j].type = "VERTEX" THEN ClusteredBy(j, TRUE)
           ELSE ClusteredBy(j, FALSE)

C7_Witness ==
    \E i, j \in LogIdx :
        /\ log[i].op = "dupli" /\ log[j].op = "dupli"
        /\ log[j].type = "FACE"
        /\ Len(log[j].clusters) >= 2
        /\ \E c \in 1..Len(log[j].clusters) :
              \E a, b \in 1..Len(log[j].clusters[c].v) :
                  /\ ~SameRotation(log[j].clusters[c].v[a], log[j].clusters[c].v[b])
                  /\ Decompose(log[j].clusters[c].v[a]).loc
                        # Decompose(log[j].clusters[c].v[b]).loc

C7_WitnessVert ==
    \E j \in LogIdx :
        /\ log[j].op = "dupli"
        /\ log[j].type = "VERTEX"
        /\ Len(log[j].clusters) >= 2
        /\ \E c \in 1..Len(log[j].clusters) :
              \E a, b \in 1..Len(log[j].clusters[c].v) :
                  Decompose(log[j].clusters[c].v[a]).loc
                      # Decompose(log[j].clusters[c].v[b]).loc

C9_LeafDepthNeverPromoted ==
    /\ \A key \in component_skip \cup DOMAIN group_written : DepthOf(key) # 1
    /\ AfterGroups =>
          \A e \in 1..Len(stats) :
              DepthOf(stats[e].key) # 1 => Promoted(stats[e].key)

C9_Witness ==
    /\ AfterGroups
    /\ \E e \in 1..Len(stats) :
          /\ DepthOf(stats[e].key) = 1
          /\ Len(stats[e].v) > max_instance
          /\ ~Promoted(stats[e].key)
    /\ \E e \in 1..Len(stats) : Promoted(stats[e].key)

Materialisations == {j \in LogIdx : log[j].op \in {"new", "reuse"}}

\* C10: groups are materialised in non-decreasing order of component depth,
\* and when component_def_as_group is called for an outer pair of depth d,
\* every pair of smaller depth that passed the threshold filter and is not
\* of depth 1 is in ComponentSkip and has its collection in group_written.
C10_ShallowGroupsFirst ==
    /\ \A i, j \in Materialisations : i < j => log[i].depth <= log[j].depth
    /\ \A j \in LogIdx :
          log[j].op = "new"
          => \A e \in 1..Len(stats) :
                (DepthOf(stats[e].key) < log[j].depth /\ DepthOf(stats[e].key) # 1)
                => /\ stats[e].key \in log[j].skip
                   /\ stats[e].key \in log[j].written

C10_Witness ==
    /\ pc = "component_def_as_group"
    /\ LoopDepth = 2
    /\ \E e \in 1..Len(stats) :
          /\ DepthOf(stats[e].key) = 0
          /\ Promoted(stats[e].key)
          /\ e > loop.k

\* the names of the collections that existed when entry j of the log was made
CollectionsAt(j) == {collections[k].name : k \in 1..log[j].ncollections}

\* C11: a pair is materialised at most once; with reuse_existing_groups set
\* and a collection of the pair's group name present, that collection becomes
\* the pair's handle and the step makes no collection, object or mesh;
\* otherwise one new collection is made for the pair; either way the pair is
\* in ComponentSkip with that handle in group_written once
\* write_duplicateable_groups has moved on.
C11_GroupMaterialisedOnce ==
    /\ [](\A i, j \in Materialisations : log[i].key = log[j].key => i = j)
    /\ [](\A j \in Materialisations :
            LET gname == group_name(log[j].key[1], log[j].key[2])
                reuse == reuse_group /\ gname \in CollectionsAt(j)
            IN  /\ reuse <=> log[j].op = "reuse"
                /\ log[j].op = "reuse"
                      => /\ log[j].group <= log[j].ncollections
                         /\ collections[log[j].group].name = gname
                /\ log[j].op = "new"
                      => /\ log[j].group = log[j].ncollections + 1
                         /\ \A i \in Materialisations :
                               (log[i].op = "new" /\ log[i].group = log[j].group)
                               => i = j
                /\ (pc = "groups" \/ AfterGroups)
                      => /\ log[j].key \in component_skip
                         /\ log[j].key \in DOMAIN group_written
                         /\ group_written[log[j].key] = log[j].group)
    /\ [][(Len(log') = Len(log) + 1 /\ log'[Len(log')].op = "reuse")
            => /\ collections' = collections
               /\ objects' = objects
               /\ meshes' = meshes]_vars

C11_Witness ==
    /\ AfterGroups
    /\ \E i, j \in Materialisations :
          /\ log[i].op = "reuse" /\ log[j].op = "new"
          /\ Promoted(log[i].key) /\ Promoted(log[j].key)

RECURSIVE SeqSum(_)
SeqSum(s) == IF s = <<>> THEN 0 ELSE Head(s) + SeqSum(Tail(s))

\* the paths from a node with effective material mat, through groups and
\* instances that are not on a layer of layers_skip, to an instance of the
\* component key[1] whose effective material is key[2]
RECURSIVE PathsTo(_, _, _)
PathsTo(entities, mat, key) ==
    SeqSum([g \in 1..Len(entities.groups) |->
              LET group == entities.groups[g]
              IN  IF group.layer \in layers_skip THEN 0
                  ELSE PathsTo(group.entities,
                               IF group.material = "" THEN mat ELSE group.material,
                               key)])
    + SeqSum([i \in 1..Len(entities.instances) |->
              LET instance == entities.instances[i]
                  m == IF instance.material = "" THEN mat ELSE instance.material
              IN  IF instance.layer \in layers_skip THEN 0
                  ELSE (IF <<instance.definition, m>> = key THEN 1 ELSE 0)
                       + PathsTo(component_definitions[instance.definition], m, key)])

AnalysisDone == pc \notin {"idle", "analyze"}

\* C12: when analyze_entities has returned to write_duplicateable_groups, the
\* number of transforms recorded for every pair (component, effective
\* material) is the number of paths from the model root to an instance of the
\* component with that effective material that pass through no group or
\* instance on a layer of layers_skip: no part of the hierarchy is left out
\* because of ComponentSkip.
C12_AnalysisCountsEveryPath ==
    AnalysisDone =>
        \A n \in DefNames, m \in {"Material", "Red", "Blue"} :
            Len(Lookup(analysed, <<n, m>>)) = PathsTo(skp_model, "Material", <<n, m>>)

C12_Witness ==
    /\ AfterGroups
    /\ layers_skip # {}
    /\ Promoted(<<"A", "Material">>)
    /\ Len(Lookup(analysed, <<"A", "Material">>)) >= 3
    /\ \E j \in 1..Len(skp_model.instances) : skp_model.instances[j].definition = "D"

\* the calls of write_entities that wrote a node
Written == {j \in LogIdx : log[j].op = "write"}

NestedIn(j) == Len(log[j].ent.groups) + Len(log[j].ent.instances)

IsRootCall(j) == log[j].name = "_(Loose Entity)"

\* the objects parented to object o
ChildrenOf(o) == {k \in ObjIdx : objects[k].parent = o}

\* the loose-mesh objects made under object o
LooseUnder(o) == {k \in ChildrenOf(o) : objects[k].by = "loose"}

\* the node of call j is one object holding the mesh of the call
SingleNode(j) ==
    /\ objects[log[j].ob].data = log[j].mesh
    /\ LooseUnder(log[j].ob) = {}

\* the node of call j is an empty object, with the mesh of the call, when
\* there is one, on one child of it that has no children
EmptyNode(j) ==
    /\ objects[log[j].ob].data = 0
    /\ IF log[j].mesh = 0 THEN LooseUnder(log[j].ob) = {}
       ELSE \E k \in ObjIdx :
               /\ LooseUnder(log[j].ob) = {k}
               /\ objects[k].data = log[j].mesh
               /\ ChildrenOf(k) = {}

\* every call that wrote a node made an object of its own, and no object of
\* the write pass that holds a mesh is the parent of an object
NodesApart ==
    /\ \A i, j \in Written :
          /\ objects[log[j].ob].by = "write"
          /\ log[i].ob = log[j].ob => i = j
    /\ \A o \in ObjIdx :
          (objects[o].by \in {"write", "loose"} /\ objects[o].data # 0)
          => ChildrenOf(o) = {}

RECURSIVE EffectiveMaterial(_, _)
EffectiveMaterial(mat, path) ==
    IF path = <<>> THEN mat
    ELSE EffectiveMaterial(IF Head(path).material # "" THEN Head(path).material ELSE mat,
                           Tail(path))

\* the calls of the three traversals
Calls == {j \in LogIdx : log[j].op \in {"analyze", "write", "write_skip",
                                         "group_mesh", "group_reference"}}

\* the entry of the materialisation that call j of component_def_as_group
\* belongs to
GroupOf(j) ==
    CHOOSE i \in Materialisations :
        /\ i < j /\ log[i].op = "new"
        /\ \A k \in Materialisations : (k < j /\ log[k].op = "new") => k <= i

\* the material the root call of the traversal of call j was given:
\* 'Material' for analyze_entities and write_entities, the material of the
\* pair for component_def_as_group
RootMaterial(j) ==
    IF log[j].op \in {"group_mesh", "group_reference"} THEN log[GroupOf(j)].key[2]
    ELSE "Material"

\* C14: in every call of analyze_entities, write_entities and
\* component_def_as_group the material passed is the node's own material
\* when it has one, else the material passed to its parent, and so the
\* material of the root call ('Material', or the pair's material for a
\* group) when no node on the path has one; every mesh a call gets is the
\* mesh of the call's material, and the slots of a mesh that the call's
\* write_mesh_data builds from the node's faces (lines 499-575, the key not
\* yet cached) are the materials of the faces, with the material passed to
\* the node for the faces that have none.
C14_EffectiveMaterial ==
    /\ \A j \in Calls : log[j].mat = EffectiveMaterial(RootMaterial(j), log[j].path)
    /\ \A j \in MeshCalls :
          log[j].mesh # 0
          => /\ meshes[log[j].mesh].key[2] = log[j].mat
             /\ <<log[j].name, log[j].mat>> \notin log[j].cache
                => {meshes[log[j].mesh].materials[k] :
                       k \in 1..Len(meshes[log[j].mesh].materials)}
                   = {IF log[j].ent.faces[k] # "" THEN log[j].ent.faces[k] ELSE log[j].mat :
                       k \in 1..Len(log[j].ent.faces)}

C14_Witness ==
    /\ FullyLoaded
    /\ \E j \in Calls :
          /\ log[j].op = "write" /\ log[j].mat = "Red" /\ log[j].mesh # 0
          /\ Len(log[j].path) >= 3
          /\ log[j].path[Len(log[j].path)].material = ""
          /\ \E k \in 1..Len(log[j].ent.faces) : log[j].ent.faces[k] = ""
    /\ \E j \in Calls :
          /\ log[j].op = "group_reference" /\ log[j].mat = "Red"
          /\ Len(log[j].path) >= 2
          /\ log[j].path[Len(log[j].path)].material = ""
    /\ \E j \in Calls : log[j].op = "analyze" /\ log[j].mat = "Red"

\* sketchup.Model.from_file has raised in this load
FromFileFailed == \E j \in LogIdx : log[j].op = "from_file_error"

\* C15: when sketchup.Model.from_file raises, load returns at once: the host
\* has the collections it had, no camera or other object, no mesh and no
\* material has been made, and no call of analyze_entities, of
\* write_duplicateable_groups, of write_entities or of the final instancing
\* pass has been made or is pending.
C15_FromFileErrorAborts ==
    FromFileFailed
    => /\ pc = "failed"
       /\ Len(log) = 1
       /\ NamesOf(collections) = {HostCollections[j] : j \in 1..Len(HostCollections)}
       /\ objects = <<>>
       /\ meshes = <<>>
       /\ materials = {}
       /\ component_meshes = <<>>
       /\ analysed = <<>> /\ stats = <<>> /\ stack = <<>>
       /\ component_stats = <<>> /\ component_skip = {} /\ group_written = <<>>

C15_Witness ==
    /\ FromFileFailed
    /\ pc = "failed"
    /\ max_instance = MaxThreshold

\* the keys of self.component_meshes when the call of entry j returned: what
\* the next call of write_mesh_data found, or what the cache holds now
CacheAfter(j) ==
    IF \E i \in MeshCalls : i > j
    THEN log[CHOOSE i \in MeshCalls : i > j /\ \A k \in MeshCalls : k > j => i <= k].cache
    ELSE DOMAIN component_meshes

\* the children of the node of entry j that write_entities goes on with
WrittenChildren(j) ==
    {PathTo(log[j], "group", k, log[j].ent.groups[k]) :
        k \in {g \in 1..Len(log[j].ent.groups) :
                  /\ ~log[j].ent.groups[g].hidden
                  /\ log[j].ent.groups[g].layer \notin layers_skip}}
    \cup
    {PathTo(log[j], "instance", k, log[j].ent.instances[k]) :
        k \in {i \in 1..Len(log[j].ent.instances) :
                  /\ ~log[j].ent.instances[i].hidden
                  /\ log[j].ent.instances[i].layer \notin layers_skip}}

\* a call of write_entities has been made, or is pending, for the path
Reached(path) ==
    \/ \E i \in LogIdx : log[i].op \in {"write", "write_skip"} /\ log[i].path = path
    \/ \E k \in 1..Len(stack) : stack[k].path = path

BuiltMeshes == {k \in 1..Len(meshes) : meshes[k].key # <<>>}

\* C17: every mesh write_mesh_data builds has one bound material per
\* material slot, in the order of the slots: the material of the slot's name
\* when self.materials has the name, else the material 'Material', which
\* self.materials always has; the call returns the mesh and caches it.
C17_UnknownMaterialFallsBack ==
    /\ pc \notin {"idle", "failed"} => "Material" \in materials
    /\ \A k \in BuiltMeshes :
          /\ Len(meshes[k].bound) = Len(meshes[k].materials)
          /\ \A i \in 1..Len(meshes[k].materials) :
                /\ meshes[k].materials[i] \in materials
                      => meshes[k].bound[i] = meshes[k].materials[i]
                /\ meshes[k].materials[i] \notin materials
                      => meshes[k].bound[i] = "Material"
          /\ meshes[k].key \in DOMAIN component_meshes
          /\ component_meshes[meshes[k].key] = k
          /\ \E j \in MeshCalls : log[j].mesh = k

C17_Witness ==
    \E k \in BuiltMeshes :
        /\ Len(meshes[k].materials) >= 1
        /\ \E i \in 1..Len(meshes[k].materials) :
              /\ meshes[k].materials[i] \notin materials
              /\ meshes[k].bound[i] = "Material"
        /\ \E m \in BuiltMeshes :
              \E i \in 1..Len(meshes[m].materials) :
                  /\ meshes[m].materials[i] \in materials
                  /\ meshes[m].materials[i] # "Material"


(***************************************************************************)
(* C18: the warehouse operator                                             *)
(***************************************************************************)
\* the call went past the direct URL: the entity JSON was read
ByVersions == wh.pc # "idle" /\ wh.in.direct_download_url = "" /\ wh.pc # "direct"

\* no attempt follows one that downloaded and imported
StopsAtFirstImport ==
    \A i \in 1..Len(wh.attempts) : wh.attempts[i].imported => i = Len(wh.attempts)

\* the GLB is asked for only when every entry of the attempt list was gone
\* through, none imported, the option is on and the entity has a GLB
GlbOnlyAsFallback ==
    /\ wh.glb # "" =>
          /\ \A k \in DOMAIN wh.attempt_map : wh.attempt_map[k].key \in wh.tried_versions
          /\ \A i \in 1..Len(wh.attempts) : ~wh.attempts[i].imported
          /\ wh.in.fallback_to_glb
          /\ wh.glb_url # ""
    /\ wh.skp_imported => wh.glb = ""

\* C18 as stated: without a direct URL, the SKP versions are attempted in
\* strictly descending version number, the attempts stop at the first version
\* that downloads and imports, and the GLB fallback is attempted only after
\* every SKP attempt failed, only when fallback_to_glb is on and a GLB URL
\* exists, and never after a successful SKP import.
C18_DescendingThenGlb ==
    ByVersions =>
        /\ \A i, j \in 1..Len(wh.attempts) :
              i < j => SkpVersion(wh.attempts[i].key) > SkpVersion(wh.attempts[j].key)
        /\ StopsAtFirstImport
        /\ GlbOnlyAsFallback

\* C18 amended: without a direct URL, every version key is attempted at most
\* once; the regenerated URLs come first, in strictly descending version
\* number, and the URLs of the JSON follow for the keys not attempted yet
\* (whatever their number); the attempts stop at the first version that
\* downloads and imports, and the GLB fallback is attempted only after every
\* SKP attempt failed, only when fallback_to_glb is on and a GLB URL exists,
\* and never after a successful SKP import.
C18_RegeneratedDescendingThenGlb ==
    ByVersions =>
        /\ \A i, j \in 1..Len(wh.attempts) :
              i < j =>
                /\ wh.attempts[i].key # wh.attempts[j].key
                /\ wh.attempts[j].regenerated =>
                      /\ wh.attempts[i].regenerated
                      /\ SkpVersion(wh.attempts[i].key) > SkpVersion(wh.attempts[j].key)
        /\ StopsAtFirstImport
        /\ GlbOnlyAsFallback

\* C18 witness: two regenerated URLs and a URL of the JSON failed, then the
\* GLB was imported
C18_Witness ==
    /\ ByVersions
    /\ wh.pc = "returned"
    /\ wh.result = "FINISHED"
    /\ wh.glb = "ok"
    /\ Len(wh.attempts) >= 3
    /\ ~wh.attempts[Len(wh.attempts)].regenerated


(***************************************************************************)
(* C19: transforms along a path                                            *)
(***************************************************************************)
\* the image of point p under transform T
Image(T, p) == <<T.a * p[1] + T.b * p[2] + T.x, T.c * p[1] + T.d * p[2] + T.y>>

\* the image of p under the local transforms of a path, the innermost first:
\* what the product (parent first, then local) of the path does to p
RECURSIVE ImageAlong(_, _)
ImageAlong(path, p) ==
    IF path = <<>> THEN p
    ELSE Image(Head(path).transform, ImageAlong(Tail(path), p))

\* three points that fix a transform of the plane
Frame3 == {<<0, 0>>, <<1, 0>>, <<0, 1>>}

\* the transforms analysis has recorded for a pair, as the calls gave them
AnalysedCalls(key) ==
    SelectIdx(log, {j \in LogIdx : /\ log[j].op = "analyze"
                                   /\ log[j].etype = EntityType.component
                                   /\ <<log[j].name, log[j].mat>> = key})

\* C19: for every node reached by analyze_entities, write_entities or
\* component_def_as_group, the transform passed for the node is the ordered
\* product (parent first, then local) of the local transforms of the groups
\* and instances on the path from the root of the traversal, starting from
\* the identity; so the transform analysis records for an occurrence is the
\* transform the write pass computes for the same path.
C19_TransformIsPathProduct ==
    /\ \A j \in Calls : \A p \in Frame3 :
          Image(log[j].transform, p) = ImageAlong(log[j].path, p)
    /\ \A k \in DOMAIN analysed :
          LET calls == AnalysedCalls(analysed[k].key)
          IN  analysed[k].v = [n \in 1..Len(calls) |-> log[calls[n]].transform]
    /\ \A i, j \in Calls :
          /\ log[i].op = "analyze"
          /\ log[j].op \in {"write", "write_skip"}
          /\ log[i].path = log[j].path
          => log[i].transform = log[j].transform

\* C19 witness: analysis recorded an occurrence two levels down whose path
\* holds a turn or a scale and a translation, the write pass reached the
\* same path, and a group was written with a node below its root
C19_Witness ==
    /\ FullyLoaded
    /\ \E i, j \in Calls :
          /\ log[i].op = "analyze" /\ log[i].etype = EntityType.component
          /\ log[j].op \in {"write", "write_skip"}
          /\ log[i].path = log[j].path
          /\ Len(log[i].path) >= 2
          /\ \E a, b \in 1..Len(log[i].path) :
                /\ a # b
                /\ log[i].path[a].transform.a # 1
                /\ <<log[i].path[b].transform.x, log[i].path[b].transform.y>> # <<0, 0>>
    /\ \E j \in Calls :
          /\ log[j].op \in {"group_mesh", "group_reference"}
          /\ log[j].path # <<>>
          /\ log[j].transform # Identity


(***************************************************************************)
(* C20: the clusters of instance_group_dupli_vert                          *)
(***************************************************************************)
\* the calls of instance_group_dupli_vert
VertCalls == {e \in LogIdx : log[e].op = "dupli" /\ log[e].type = "VERTEX"}

\* how many members of sequence s are t
Occurrences(s, t) == Cardinality({n \in DOMAIN s : s[n] = t})

\* the location of a transform: where it takes the origin
LocationOf(T) == Image(T, <<0, 0>>)

\* the clusters of call e whose point mesh was created: all of them, unless
\* instance_object_or_group raised in the call
BuiltClusters(e) ==
    {c \in DOMAIN log[e].clusters : log[e].mesh0 + c <= Len(meshes)}

\* the point mesh and the object of cluster c of call e
DupliMesh(e, c) == meshes[log[e].mesh0 + c]

DupliObject(e, c) == objects[log[e].ob0 + 2 * c - 1]

\* C20: in instance_group_dupli_vert the clusters partition the occurrence
\* list of the pair: every recorded occurrence is in exactly one cluster;
\* the point mesh of each cluster has exactly one vertex per occurrence of
\* the cluster, the object of the cluster is at the location of the first
\* occurrence, and every vertex is the location of its occurrence minus that
\* first location, so the first vertex is the origin.
C20_DupliVertClusters ==
    \A e \in VertCalls :
        LET cs == log[e].clusters
        IN  /\ \A c, d \in DOMAIN cs : cs[c].key = cs[d].key => c = d
            /\ \A c \in DOMAIN cs : cs[c].v # <<>>
            /\ \A n \in DOMAIN log[e].v :
                  Occurrences(log[e].v, log[e].v[n])
                  = SeqSum([c \in DOMAIN cs |-> Occurrences(cs[c].v, log[e].v[n])])
            /\ SeqSum([c \in DOMAIN cs |-> Len(cs[c].v)]) = Len(log[e].v)
            /\ pc # "KeyError" => BuiltClusters(e) = DOMAIN cs
            /\ \A c \in BuiltClusters(e) :
                  LET first == LocationOf(cs[c].v[1])
                      verts == DupliMesh(e, c).vertices
                  IN  /\ Len(verts) = Len(cs[c].v)
                      /\ DupliObject(e, c).by = "dupli"
                      /\ DupliObject(e, c).data = log[e].mesh0 + c
                      /\ DupliObject(e, c).matrix_world = Translation(first[1], first[2])
                      /\ \A n \in DOMAIN verts :
                            /\ verts[n][1] + first[1] = LocationOf(cs[c].v[n])[1]
                            /\ verts[n][2] + first[2] = LocationOf(cs[c].v[n])[2]
                      /\ verts[1] = <<0, 0>>

\* C20 witness: a call made two clusters, one of them of two occurrences at
\* different places, away from the origin
C20_Witness ==
    /\ FullyLoaded
    /\ \E e \in VertCalls :
          /\ Len(log[e].clusters) >= 2
          /\ BuiltClusters(e) = DOMAIN log[e].clusters
          /\ \E c \in DOMAIN log[e].clusters :
                /\ Len(log[e].clusters[c].v) >= 2
                /\ LocationOf(log[e].clusters[c].v[1]) # <<0, 0>>
                /\ DupliMesh(e, c).vertices[2] # <<0, 0>>


(***************************************************************************)
(* C21, C22: _attempt_download                                             *)
(***************************************************************************)
Tries == IF dl.pc = "idle" THEN {} ELSE DOMAIN dl.tries

\* the attempt wrote a file with bytes in it
WroteFile(t) == dl.tries[t].out.kind = "file" /\ dl.tries[t].out.size > 0

\* the place of an attempt among the attempts of one URL
HowOrder(how) == CASE how = "primary" -> 1 [] how = "alt" -> 2 [] how = "wget" -> 3

\* C21: _attempt_download returns (path, None) exactly when some attempt
\* wrote a non-empty file, and that attempt is the last one made; otherwise
\* it returns, after all the URLs, (None, e) with e the error of the last
\* failed attempt, None when no attempt was made.  For each non-empty URL
\* the attempts are in the order urllib with the primary headers, urllib
\* with the alternate headers, wget; and wget is never used with a cookie.
C21_AttemptDownload ==
    /\ \A t \in Tries : WroteFile(t) => (t = Len(dl.tries) /\ dl.pc = "returned")
    /\ dl.pc = "returned" =>
          /\ dl.path # "" <=> \E t \in Tries : WroteFile(t)
          /\ dl.path # "" => dl.err = NoError
          /\ dl.path = "" =>
                /\ \A u \in DOMAIN dl.urls :
                      dl.urls[u] # "" => \E t \in Tries : dl.tries[t].u = u
                /\ dl.err = IF dl.tries = <<>> THEN NoError
                            ELSE dl.tries[Len(dl.tries)].error
                /\ dl.tries # <<>> => dl.err # NoError
    /\ \A t \in Tries :
          /\ dl.tries[t].url # ""
          /\ dl.tries[t].error.try \in {0, t}
          /\ (\A r \in Tries : r < t => dl.tries[r].u # dl.tries[t].u)
             => dl.tries[t].how = "primary"
    /\ \A r, t \in Tries :
          r < t =>
            \/ dl.tries[r].u < dl.tries[t].u
            \/ /\ dl.tries[r].u = dl.tries[t].u
               /\ HowOrder(dl.tries[r].how) < HowOrder(dl.tries[t].how)
    /\ dl.pc # "idle" /\ dl.cookie # "" => \A t \in Tries : dl.tries[t].how # "wget"

\* C21 witness: without a cookie, wget wrote the file of the second URL
\* after the three attempts on the first URL and the two with urllib on the
\* second had failed
C21_Witness ==
    /\ dl.pc = "returned"
    /\ dl.cookie = ""
    /\ dl.path # ""
    /\ Len(dl.tries) = 6
    /\ dl.tries[6].how = "wget"
    /\ dl.tries[6].u = 2

\* the HTTP errors that end the attempts with urllib on a URL
EndsUrl(t) ==
    /\ dl.tries[t].out.kind = "HTTPError"
    /\ dl.tries[t].out.code \notin {301, 302, 303, 307, 308, 401}

\* C22: after an HTTP error whose status is neither a redirect (301, 302,
\* 303, 307, 308) nor 401, no further attempt of any kind is made for that
\* URL.
C22_HttpErrorEndsUrl ==
    \A r, t \in Tries : (EndsUrl(r) /\ r < t) => dl.tries[t].u # dl.tries[r].u


(***************************************************************************)
(* C23: the URLs of the JSON in the warehouse operator                     *)
(***************************************************************************)
\* the operator has given up on SKP: it returned after the entity JSON was
\* read and no SKP file was imported
GaveUpOnSkp ==
    /\ ByVersions
    /\ wh.pc = "returned"
    /\ wh.model_id # ""
    /\ wh.in.fetch = "data"
    /\ ~wh.skp_imported

\* C23: for every SKP version listed in the binaries of the entity, the
\* regenerated URL is attempted first and, when it fails, the url/contentUrl
\* the JSON gives for that version is attempted afterwards, before the
\* operator gives up on SKP.
C23_JsonUrlAfterRegenerated ==
    GaveUpOnSkp =>
        \A k \in DOMAIN wh.in.binaries :
            LET b == wh.in.binaries[k]
            IN  SkpVersion(b.key) >= 0 =>
                  \E r \in DOMAIN wh.attempts :
                      /\ wh.attempts[r].regenerated
                      /\ SkpVersion(wh.attempts[r].key) = SkpVersion(b.key)
                      /\ JsonUrls(b) # <<>> =>
                            \E t \in DOMAIN wh.attempts :
                                /\ r < t
                                /\ ~wh.attempts[t].regenerated
                                /\ wh.attempts[t].key = b.key


(***************************************************************************)
(* C24: the paging offset of the search                                    *)
(***************************************************************************)
\* n blanks
Blanks(n) == [j \in 1..n |-> " "]

\* query is text without the blanks at its two ends
StrippedOf(text, query) ==
    /\ \E i, j \in 0..Len(text) : text = Blanks(i) \o query \o Blanks(j)
    /\ query # <<>> => (query[1] # " " /\ query[Len(query)] # " ")

\* the last call searched: its query was not empty
Searched == search.result # "" /\ ~StrippedOf(search.last.query, <<>>)

\* C24: after any sequence of calls of SKPWH_OT_Search.execute the paging
\* offset is never negative; a search whose query differs from the last
\* searched query resets the offset to 0 before the page delta is applied;
\* a search with page delta d and the same query changes the offset by
\* exactly d * max_results, clamped below at 0.
C24_SearchOffset ==
    /\ search.skp_wh_offset >= 0
    /\ Searched =>
          LET before == search.last
              d == before.page_delta * before.max_results
          IN  /\ StrippedOf(before.query, search._skp_wh_last_query)
              /\ search._skp_wh_last_query # before._skp_wh_last_query
                 => search.skp_wh_offset = (IF d > 0 THEN d ELSE 0)
              /\ search._skp_wh_last_query = before._skp_wh_last_query
                 => search.skp_wh_offset
                    = (IF before.skp_wh_offset + d > 0 THEN before.skp_wh_offset + d ELSE 0)
    /\ (search.result # "" /\ ~Searched) =>
          /\ search.skp_wh_offset = search.last.skp_wh_offset
          /\ search._skp_wh_last_query = search.last._skp_wh_last_query

\* C24 witness: at an offset above 1, a search with a new query, typed with
\* a blank at an end, and page delta 1 left the offset at max_results, below
\* where it was
C24_Witness ==
    /\ Searched
    /\ search._skp_wh_last_query # search.last._skp_wh_last_query
    /\ search.last.query # search._skp_wh_last_query
    /\ search.last.skp_wh_offset > 1
    /\ search.last.page_delta = 1
    /\ search.skp_wh_offset = search.last.max_results
    /\ search.skp_wh_offset < search.last.skp_wh_offset

\* C24 witness of the clamp: a search with the same query went back by more
\* than the offset
C24_WitnessClamped ==
    /\ Searched
    /\ search._skp_wh_last_query = search.last._skp_wh_last_query
    /\ search.last.skp_wh_offset > 0
    /\ search.last.skp_wh_offset + search.last.page_delta * search.last.max_results < 0
    /\ search.skp_wh_offset = 0


(***************************************************************************)
(* C25: the pairs of the final instancing pass                             *)
(***************************************************************************)
\* the objects instance_object_or_group returned in the final pass
InstanceObjects == {o \in ObjIdx : objects[o].by = "instance"}

\* C25: when write_duplicateable_groups has completed, the keys of
\* ComponentSkip are the keys of group_written, and every pair the final
\* instancing pass runs for (every key of the occurrence map of the write
\* pass) is in group_written; so instance_object_or_group returns an object
\* that instances a collection, never one on a cached mesh, and never raises
\* KeyError.
C25_InstancedPairsAreWritten ==
    /\ AfterGroups => component_skip = DOMAIN group_written
    /\ \A e \in 1..Len(component_stats) :
          component_stats[e].key \in DOMAIN group_written
    /\ pc # "KeyError"
    /\ \A j \in LogIdx :
          log[j].op = "dupli" =>
            /\ log[j].key \in DOMAIN group_written
            /\ \A c \in DOMAIN log[j].clusters :
                  /\ log[j].ob0 + 2 * c \in InstanceObjects
                  /\ objects[log[j].ob0 + 2 * c].instance_collection
                     = group_written[log[j].key]
    /\ \A o \in InstanceObjects :
          /\ objects[o].data = 0
          /\ objects[o].instance_collection # 0
          /\ \E k \in DOMAIN group_written :
                group_written[k] = objects[o].instance_collection

\* C25 witness: the import is over, the final pass made two clusters for a
\* pair, each with its instance of the collection, and a pair that passed
\* the threshold has no group (its depth is 1)
C25_Witness ==
    /\ FullyLoaded
    /\ \E j \in LogIdx : log[j].op = "dupli" /\ Len(log[j].clusters) >= 2
    /\ Cardinality(InstanceObjects) >= 2
    /\ \E e \in 1..Len(stats) : stats[e].key \notin DOMAIN group_written


(***************************************************************************)
(* C26: hidden groups and instances in the analysis                        *)
(***************************************************************************)
\* a group or an instance on the path has its hidden flag set
ThroughHidden(path) == \E n \in DOMAIN path : path[n].hidden

\* the occurrences analysis recorded for a pair that the write pass would
\* write as far as the hidden flags go: no node on their path is hidden
ShownOccurrences(key) ==
    {j \in LogIdx : /\ log[j].op = "analyze"
                    /\ log[j].etype = EntityType.component
                    /\ <<log[j].name, log[j].mat>> = key
                    /\ ~ThroughHidden(log[j].path)}

\* no pair is past the threshold filter, or has its group written, with
\* fewer than max_instance occurrences outside hidden groups and instances
NoPairPromotedByHidden ==
    AfterGroups =>
        /\ \A e \in 1..Len(stats) :
              Cardinality(ShownOccurrences(stats[e].key)) >= max_instance
        /\ \A key \in DOMAIN group_written :
              Cardinality(ShownOccurrences(key)) >= max_instance

\* C26: a group or instance whose hidden flag is set, which write_entities
\* skips, contributes no occurrence to ComponentStats, so no pair passes
\* the threshold by occurrences the write pass would not write.
C26_HiddenNotCounted ==
    /\ \A j \in LogIdx :
          log[j].op \in {"write", "write_skip"} => ~ThroughHidden(log[j].path)
    /\ \A j \in LogIdx : log[j].op = "analyze" => ~ThroughHidden(log[j].path)
    /\ NoPairPromotedByHidden


(***************************************************************************)
(* C27: the mesh cache across call sites                                   *)
(***************************************************************************)
\* C27: any two calls of write_mesh_data with the same key (name, default
\* material) are made for the same face set, whatever the call sites
\* (write_entities with the 'C-' and 'G-' names, component_def_as_group with
\* the names of the definitions and 'G-' + group name), and the mesh a call
\* returns is built from the entities passed to it.
C27_CacheKeyMeansSameFaces ==
    /\ \A i, j \in MeshCalls :
          (log[i].name = log[j].name /\ log[i].mat = log[j].mat)
          => log[i].ent.faces = log[j].ent.faces
    /\ \A j \in MeshCalls :
          log[j].mesh # 0 => meshes[log[j].mesh].entities.faces = log[j].ent.faces


(***************************************************************************)
(* C28: write_materials                                                    *)
(***************************************************************************)
\* C28: write_materials completes without raising and leaves every material
\* name of the file, and 'Material', bound to a material of the host in
\* self.materials, for both values of reuse_material and whatever the host
\* has before (the material present or not).
C28_WriteMaterialsBindsAll ==
    host.pc # "idle" =>
        /\ host.pc = "returned"
        /\ "Material" \in DOMAIN host.materials
        /\ \A k \in DOMAIN host.names : host.names[k] \in DOMAIN host.materials
        /\ \A n \in DOMAIN host.materials : host.materials[n] \in host.table

=============================================================================
